---------------------------- MODULE Spec2Model ----------------------------
(***************************************************************************)
(* Verification model of Fyne-P21-Print (nelko-print).                     *)
(*                                                                         *)
(*   Spec / SpecInflight : the RFCOMM connection manager                   *)
(*                         (internal/printer, linux build): EstablishRFCOMM*)
(*                         run by concurrent callers, the bind subprocess, *)
(*                         the kernel's rfcomm slots, RFCOMMConnection.Close*)
(*   SpecApp             : the application (cmd/nelko-print): the connect  *)
(*                         buttons, disconnect and the connect goroutine   *)
(*   SpecClient          : the printer client (internal/printer): the      *)
(*                         queries of one Printer over its serial port     *)
(***************************************************************************)
EXTENDS Integers, Sequences, FiniteSets, TLC

(***************************************************************************)
(* Bounds of the model and program constants                               *)
(***************************************************************************)
\* FindAvailableRFCOMMDevice: for i := 0; i < 10; i++
NumSlots == 10
\* concurrent callers of EstablishRFCOMM
NumCalls == 2
\* further threads that call RFCOMMConnection.Close
NumClosers == 2
\* poll iterations that fit before the 15 s bind deadline
MaxPolls == 2

\* connect goroutines of the application that can be alive together
MaxGo == 2
\* printer sessions the application opens in one run
MaxSessions == 3
\* EstablishRFCOMM calls the application makes in one run
MaxConns == 2

\* bytes of a response beyond the "BATTERY" prefix and before the terminator
MaxExtra == 2
\* Write calls one run of the client makes
MaxWrites == 2
\* how far outside 0..15 the density levels tried reach
MaxOver == 2
\* characters of a text
MaxText == 4
\* lines of output of the discovery tool
MaxLines == 2
\* print goroutines of the application that can be alive together
MaxPrints == 2
\* lines the bind subprocess writes to its output streams
MaxBindLines == 2

Slots == 0 .. (NumSlots - 1)
Calls == 1 .. NumCalls
Closers == (NumCalls + 1) .. (NumCalls + NumClosers)
Threads == Calls \cup Closers
NoSlot == -1

VARIABLES
    path,        \* the binaries exec.LookPath finds
    slotOwner,   \* kernel rfcomm table: slot -> "free" | "ext" | call that bound it
    node,        \* slots whose /dev/rfcommN node exists (os.Stat succeeds)
    pc,          \* position of each EstablishRFCOMM call
    scan,        \* FindAvailableRFCOMMDevice loop index i
    devNum,      \* conn.DevicePath as slot number, NoSlot before it is chosen
    helper,      \* the helper the call found
    proc,        \* bind subprocess: none | running | connected | exited | killed
    ctxDone,     \* the bind context has been cancelled
    polls,       \* completed poll iterations
    ret,         \* what the call returned: [conn, err]
    relIssued,   \* "rfcomm release" commands issued for the connection
    mu,          \* conn.mu: 0, or the thread holding it
    cl,          \* per thread: its Close call [stage, conn, relOk, killed, err]
    cancelAt     \* where the call stood when its context was first cancelled

mgrVars == << path, slotOwner, node, pc, scan, devNum, helper, proc, ctxDone,
              polls, ret, relIssued, mu, cl, cancelAt >>

VARIABLES
    printer,          \* a.printer: 0 (nil) or the index of a session in sess
    rfcommConn,       \* a.rfcommConn: 0 (nil) or the index of a connection in conns
    sess,             \* the Printer sessions created: [port, open]
    conns,            \* the RFCOMMConnections returned to the app: [dev, closed]
    connectBtn,       \* connectBtn is enabled
    printBtn,         \* printBtn is enabled
    sourceImg,        \* a.sourceImg # nil
    gor               \* the connect goroutines: [pc, conn, sess]

appVars == << printer, rfcommConn, sess, conns, connectBtn, printBtn, sourceImg, gor >>

VARIABLES
    p_port,           \* Printer.port: "nil", or the handle's state "open" | "closed"
    wire,             \* the Write calls the port has received, each a byte sequence
    rx,               \* the bytes the printer sends back that are still unread
    last              \* the last Printer call and what it returned

cliVars == << p_port, wire, rx, last >>

VARIABLES
    rin,              \* the inputs of the label pipeline: image, size, settings
    rout,             \* the last bitmap or preview computed from them
    job               \* the last print job built

labVars == << rin, rout, job >>

VARIABLES
    tin,              \* the text typed and the width of the canvas it is drawn on
    tout              \* the lines the last wrap of it gave

txtVars == << tin, tout >>

VARIABLES
    bt,               \* the host's discovery tool: installed, exit status, output
    listed            \* what the last ListPairedBluetoothDevices returned

disVars == << bt, listed >>

VARIABLES
    status,           \* per call: the texts its status callback was invoked with
    out,              \* per call: the lines its bind subprocess wrote, by stream
    scanned           \* per call: how many lines of each stream the scanners read

staVars == << status, out, scanned >>

VARIABLES
    prt               \* per print goroutine: its position and the session it prints on

prnVars == << prt >>

vars == << mgrVars, appVars, cliVars, labVars, txtVars, disVars, staVars, prnVars >>

notMgrVars == << appVars, cliVars, labVars, txtVars, disVars, staVars, prnVars >>
notAppVars == << mgrVars, cliVars, labVars, txtVars, disVars, staVars, prnVars >>
notCliVars == << mgrVars, appVars, labVars, txtVars, disVars, staVars, prnVars >>
notLabVars == << mgrVars, appVars, cliVars, txtVars, disVars, staVars, prnVars >>
notTxtVars == << mgrVars, appVars, cliVars, labVars, disVars, staVars, prnVars >>
\* everything outside the manager but the status callback's log
notMgrStatusVars ==
    << appVars, cliVars, labVars, txtVars, disVars, out, scanned, prnVars >>
\* everything outside the application and its print goroutines
notAppPrintVars == << mgrVars, cliVars, labVars, txtVars, disVars, staVars >>
notDisVars == << mgrVars, appVars, cliVars, labVars, txtVars, staVars, prnVars >>

(***************************************************************************)
(* Errors.  Sentinels are compared by identity (errors.Is); an error built *)
(* by fmt.Errorf without %w is a fresh value equal to no sentinel.         *)
(***************************************************************************)
ErrNil == "nil"
ErrPrivilegeRequired == "ErrPrivilegeRequired"
ErrConnectionCanceled == "ErrConnectionCanceled"
ErrTimeout == "ErrTimeout"
ErrNotConnected == "ErrNotConnected"
ErrfNotInstalled == "errorf: rfcomm not found - install with: sudo apt install bluez"
ErrfNoSlots == "errorf: no available RFCOMM device slots"
ErrfStart == "errorf: failed to start rfcomm: %w"
ErrfTimeoutWaiting == "errorf: timeout waiting for %s to appear"

Sentinels == { ErrPrivilegeRequired, ErrConnectionCanceled, ErrTimeout, ErrNotConnected }

\* errors.Is(e, target) for a sentinel target
ErrorsIs(e, target) == target \in Sentinels /\ e = target

NoRet == [conn |-> FALSE, err |-> "pending"]

(***************************************************************************)
(* Environment probes                                                      *)
(***************************************************************************)
LookPath(bin) == bin \in path

\* CheckRFCOMMInstalled: nil iff rfcomm is on the PATH
CheckRFCOMMInstalled == IF LookPath("rfcomm") THEN ErrNil ELSE ErrfNotInstalled

\* CheckPrivilegeHelper: pkexec preferred, sudo as fallback, "" when neither
CheckPrivilegeHelper ==
    IF LookPath("pkexec") THEN "pkexec"
    ELSE IF LookPath("sudo") THEN "sudo"
    ELSE ""

\* "rfcomm show /dev/rfcommN" prints a line iff the slot is bound
ShowReportsBound(s) == slotOwner[s] # "free"

\* os.Stat(devPath) == nil
StatOk(s) == s \in node

Alive(p) == p \in {"running", "connected"}

\* the owner recorded in the kernel table for a call's bind process
Owner(c) == ToString(c)

\* the kernel drops a call's binding when its bind process goes away
DropBinding(c) ==
    [s \in Slots |-> IF slotOwner[s] = Owner(c) THEN "free" ELSE slotOwner[s]]

NodesAfterDrop(c) == node \ {s \in Slots : slotOwner[s] = Owner(c)}

IdleClose ==
    [stage |-> "idle", conn |-> 0, relOk |-> TRUE, killed |-> FALSE, err |-> "pending"]

\* the positions of EstablishRFCOMM inside its poll loop
PollLoop == {"poll", "stat", "settle"}

(***************************************************************************)
(* Initial states                                                          *)
(***************************************************************************)
PathChoices ==
    { {"rfcomm", "pkexec", "sudo"}, {"rfcomm", "sudo"}, {"rfcomm"},
      {"pkexec", "sudo"}, {} }

\* slots already bound by other programs when the program starts
ExtChoices == { {}, {0}, Slots }

MgrInit ==
    /\ path \in PathChoices
    /\ \E ext \in ExtChoices :
          /\ slotOwner = [s \in Slots |-> IF s \in ext THEN "ext" ELSE "free"]
          /\ node = ext
    /\ pc = [c \in Calls |-> "idle"]
    /\ scan = [c \in Calls |-> 0]
    /\ devNum = [c \in Calls |-> NoSlot]
    /\ helper = [c \in Calls |-> ""]
    /\ proc = [c \in Calls |-> "none"]
    /\ ctxDone = [c \in Calls |-> FALSE]
    /\ polls = [c \in Calls |-> 0]
    /\ ret = [c \in Calls |-> NoRet]
    /\ relIssued = [c \in Calls |-> 0]
    /\ mu = [c \in Calls |-> 0]
    /\ cl = [t \in Threads |-> IdleClose]
    /\ cancelAt = [c \in Calls |-> "never"]

\* the application as main() leaves it
AppInit ==
    /\ printer = 0
    /\ rfcommConn = 0
    /\ sess = << >>
    /\ conns = << >>
    /\ connectBtn = TRUE
    /\ printBtn = FALSE
    /\ sourceImg = FALSE
    /\ gor = [g \in 1 .. MaxGo |-> [pc |-> "none", conn |-> 0, sess |-> 0]]

\* no query made yet
NoCall ==
    [op |-> "none", cmd |-> << >>, port |-> "nil", writeOk |-> FALSE,
     rxBefore |-> << >>, resp |-> << >>, scErr |-> ErrNil, val |-> 0, err |-> ErrNil,
     calls |-> << >>]

\* no Printer in use
CliIdle ==
    /\ p_port = "nil"
    /\ wire = << >>
    /\ rx = << >>
    /\ last = NoCall

\* no label in work
\* (nothing rasterized, no job built)
NoRaster == [op |-> "none", threshold |-> 0, invert |-> FALSE, data |-> << >>, grid |-> << >>]
NoJob == [built |-> FALSE, density |-> 0, copies |-> 0, bytes |-> << >>]

LabIdle ==
    /\ rin = [set |-> FALSE]
    /\ rout = NoRaster
    /\ job = NoJob

\* nothing wrapped yet
NoWrap == [op |-> "none", lines |-> << >>]

\* no text entered
TxtIdle ==
    /\ tin = [text |-> << >>, width |-> 0]
    /\ tout = NoWrap

\* no discovery made
NotListed == [called |-> "none", devices |-> << >>, err |-> "nil", failed |-> "none"]

DisIdle ==
    /\ bt = [installed |-> TRUE, exit |-> 0, out |-> << >>]
    /\ listed = NotListed

\* no callback invoked, nothing written by a bind subprocess
Streams == {"stdout", "stderr"}

StaIdle ==
    /\ status = [c \in Calls |-> << >>]
    /\ out = [c \in Calls |-> [f \in Streams |-> << >>]]
    /\ scanned = [c \in Calls |-> [f \in Streams |-> 0]]

\* no print goroutine started
PrnIdle == prt = [p \in 1 .. MaxPrints |-> [pc |-> "none", sess |-> 0]]

Init ==
    MgrInit /\ AppInit /\ CliIdle /\ LabIdle /\ TxtIdle /\ DisIdle
    /\ StaIdle /\ PrnIdle

(***************************************************************************)
(* EstablishRFCOMM                                                         *)
(***************************************************************************)
Return(c, conn, err) ==
    /\ ret' = [ret EXCEPT ![c] = [conn |-> conn, err |-> err]]
    /\ pc' = [pc EXCEPT ![c] = "done"]

\* entry: CheckRFCOMMInstalled, then into FindAvailableRFCOMMDevice
EstBegin(c) ==
    /\ pc[c] = "idle"
    /\ IF CheckRFCOMMInstalled # ErrNil
          THEN Return(c, FALSE, CheckRFCOMMInstalled)
          ELSE /\ pc' = [pc EXCEPT ![c] = "scan"]
               /\ ret' = ret
    /\ UNCHANGED << path, slotOwner, node, scan, devNum, helper, proc, ctxDone,
                    polls, relIssued, mu, cl, cancelAt >>
    /\ UNCHANGED notMgrVars

\* one iteration of FindAvailableRFCOMMDevice: "rfcomm show /dev/rfcomm<i>"
FindAvailableRFCOMMDevice(c) ==
    /\ pc[c] = "scan"
    /\ IF scan[c] >= NumSlots
          THEN /\ Return(c, FALSE, ErrfNoSlots)
               /\ UNCHANGED << scan, devNum >>
          ELSE IF ~ShowReportsBound(scan[c])
                  THEN /\ devNum' = [devNum EXCEPT ![c] = scan[c]]
                       /\ pc' = [pc EXCEPT ![c] = "helper"]
                       /\ UNCHANGED << scan, ret >>
                  ELSE /\ scan' = [scan EXCEPT ![c] = scan[c] + 1]
                       /\ UNCHANGED << pc, devNum, ret >>
    /\ UNCHANGED << path, slotOwner, node, helper, proc, ctxDone, polls,
                    relIssued, mu, cl, cancelAt >>
    /\ UNCHANGED notMgrVars

\* EstHelper without the test for "": the call falls into the sudo branch
EstHelperNoCheck(c) ==
    /\ pc[c] = "helper"
    /\ helper' = [helper EXCEPT ![c] = CheckPrivilegeHelper]
    /\ pc' = [pc EXCEPT ![c] = "start"]
    /\ UNCHANGED << path, slotOwner, node, scan, devNum, proc, ctxDone, polls,
                    ret, relIssued, mu, cl, cancelAt >>
    /\ UNCHANGED notMgrVars

\* helper := CheckPrivilegeHelper(); "" => ErrPrivilegeRequired
EstHelper(c) ==
    /\ pc[c] = "helper"
    /\ helper' = [helper EXCEPT ![c] = CheckPrivilegeHelper]
    /\ IF CheckPrivilegeHelper = ""
          THEN Return(c, FALSE, ErrPrivilegeRequired)
          ELSE /\ pc' = [pc EXCEPT ![c] = "start"]
               /\ ret' = ret
    /\ UNCHANGED << path, slotOwner, node, scan, devNum, proc, ctxDone, polls,
                    relIssued, mu, cl, cancelAt >>
    /\ UNCHANGED notMgrVars

\* the texts EstablishRFCOMM formats for the status callback
StatusConnecting == "Connecting to %s..."
StatusConnected == "Connected: %s"

\* statusCallback(text); the application always passes a callback
StatusCallback(c, text) == status' = [status EXCEPT ![c] = Append(status[c], text)]

\* conn is built, the callback is told "Connecting to ...", cmd.Start(): the
\* bind subprocess runs, or Start fails and the context is cancelled
EstStart(c) ==
    /\ pc[c] = "start"
    /\ StatusCallback(c, StatusConnecting)
    /\ \E ok \in BOOLEAN :
          IF ok
             THEN /\ proc' = [proc EXCEPT ![c] = "running"]
                  /\ pc' = [pc EXCEPT ![c] = "poll"]
                  /\ UNCHANGED << ret, ctxDone, cancelAt >>
             ELSE /\ ctxDone' = [ctxDone EXCEPT ![c] = TRUE]
                  /\ cancelAt' = [cancelAt EXCEPT ![c] = "start"]
                  /\ Return(c, FALSE, ErrfStart)
                  /\ proc' = proc
    /\ UNCHANGED << path, slotOwner, node, scan, devNum, helper, polls,
                    relIssued, mu, cl >>
    /\ UNCHANGED notMgrStatusVars

\* the poll loop with a deadline one interval late
EstPollTopLate(c) ==
    /\ pc[c] = "poll"
    /\ IF polls[c] >= MaxPolls + 1
          THEN /\ pc' = [pc EXCEPT ![c] = "closing"]
               /\ cl' = [cl EXCEPT ![c] = [IdleClose EXCEPT !.stage = "wait", !.conn = c]]
               /\ ret' = ret
          ELSE IF ctxDone[c]
                  THEN /\ Return(c, FALSE, ErrConnectionCanceled)
                       /\ cl' = cl
                  ELSE /\ pc' = [pc EXCEPT ![c] = "stat"]
                       /\ UNCHANGED << ret, cl >>
    /\ UNCHANGED << path, slotOwner, node, scan, devNum, helper, proc, ctxDone,
                    polls, relIssued, mu, cancelAt >>
    /\ UNCHANGED notMgrVars

\* top of the poll loop: the deadline test, then the select on ctx.Done()
EstPollTop(c) ==
    /\ pc[c] = "poll"
    /\ IF polls[c] >= MaxPolls
          THEN \* deadline passed: conn.Close() is called
               /\ pc' = [pc EXCEPT ![c] = "closing"]
               /\ cl' = [cl EXCEPT ![c] = [IdleClose EXCEPT !.stage = "wait", !.conn = c]]
               /\ ret' = ret
          ELSE IF ctxDone[c]
                  THEN /\ Return(c, FALSE, ErrConnectionCanceled)
                       /\ cl' = cl
                  ELSE /\ pc' = [pc EXCEPT ![c] = "stat"]
                       /\ UNCHANGED << ret, cl >>
    /\ UNCHANGED << path, slotOwner, node, scan, devNum, helper, proc, ctxDone,
                    polls, relIssued, mu, cancelAt >>
    /\ UNCHANGED notMgrVars

\* os.Stat(devPath): found => settle sleep; otherwise sleep one interval
EstPollStat(c) ==
    /\ pc[c] = "stat"
    /\ IF StatOk(devNum[c])
          THEN /\ pc' = [pc EXCEPT ![c] = "settle"]
               /\ polls' = polls
          ELSE /\ pc' = [pc EXCEPT ![c] = "poll"]
               /\ polls' = [polls EXCEPT ![c] = polls[c] + 1]
    /\ UNCHANGED << path, slotOwner, node, scan, devNum, helper, proc, ctxDone,
                    ret, relIssued, mu, cl, cancelAt >>
    /\ UNCHANGED notMgrVars

\* the settle sleep is over: the callback is told "Connected: ...", return
\* conn, nil
EstReady(c) ==
    /\ pc[c] = "settle"
    /\ StatusCallback(c, StatusConnected)
    /\ Return(c, TRUE, ErrNil)
    /\ UNCHANGED << path, slotOwner, node, scan, devNum, helper, proc, ctxDone,
                    polls, relIssued, mu, cl, cancelAt >>
    /\ UNCHANGED notMgrStatusVars

\* after conn.Close() on the deadline path: the untyped timeout error
EstTimeout(c) ==
    /\ pc[c] = "closing"
    /\ cl[c].stage = "returned"
    /\ Return(c, FALSE, ErrfTimeoutWaiting)
    /\ UNCHANGED << path, slotOwner, node, scan, devNum, helper, proc, ctxDone,
                    polls, relIssued, mu, cl, cancelAt >>
    /\ UNCHANGED notMgrVars

(***************************************************************************)
(* RFCOMMConnection.Close                                                  *)
(***************************************************************************)
\* a thread calls Close on a connection EstablishRFCOMM has returned
CloseCall(t, c) ==
    /\ t \in Closers
    /\ cl[t].stage = "idle"
    /\ ret[c].conn
    /\ cl' = [cl EXCEPT ![t] = [IdleClose EXCEPT !.stage = "wait", !.conn = c]]
    /\ UNCHANGED << path, slotOwner, node, pc, scan, devNum, helper, proc,
                    ctxDone, polls, ret, relIssued, mu, cancelAt >>
    /\ UNCHANGED notMgrVars

\* a thread calls Close on a connection whose EstablishRFCOMM is still in its
\* poll loop (the cancellation request of the connection state machine)
CloseCallInflight(t, c) ==
    /\ t \in Closers
    /\ cl[t].stage = "idle"
    /\ pc[c] \in PollLoop
    /\ cl' = [cl EXCEPT ![t] = [IdleClose EXCEPT !.stage = "wait", !.conn = c]]
    /\ UNCHANGED << path, slotOwner, node, pc, scan, devNum, helper, proc,
                    ctxDone, polls, ret, relIssued, mu, cancelAt >>
    /\ UNCHANGED notMgrVars

\* c.mu.Lock(); c.cancel()
CloseLock(t) ==
    /\ cl[t].stage = "wait"
    /\ mu[cl[t].conn] = 0
    /\ mu' = [mu EXCEPT ![cl[t].conn] = t]
    /\ ctxDone' = [ctxDone EXCEPT ![cl[t].conn] = TRUE]
    /\ cancelAt' = IF ctxDone[cl[t].conn] THEN cancelAt
                    ELSE [cancelAt EXCEPT ![cl[t].conn] = pc[cl[t].conn]]
    /\ cl' = [cl EXCEPT ![t].stage = "locked"]
    /\ UNCHANGED << path, slotOwner, node, pc, scan, devNum, helper, proc,
                    polls, ret, relIssued >>
    /\ UNCHANGED notMgrVars

\* CloseRelease giving up when the release fails: Close returns the error and
\* leaves the subprocess alone
CloseReleaseAbortOnFail(t) ==
    /\ cl[t].stage = "locked"
    /\ LET c == cl[t].conn
           s == devNum[c]
       IN  \E ok \in BOOLEAN :
              /\ relIssued' = [relIssued EXCEPT ![c] = relIssued[c] + 1]
              /\ IF ok
                    THEN /\ cl' = [cl EXCEPT ![t].stage = "released", ![t].relOk = TRUE]
                         /\ slotOwner' = [slotOwner EXCEPT ![s] = "free"]
                         /\ node' = node \ {s}
                         /\ mu' = mu
                    ELSE /\ cl' = [cl EXCEPT ![t].stage = "returned", ![t].relOk = FALSE,
                                             ![t].err = "release failed"]
                         /\ mu' = [mu EXCEPT ![c] = 0]
                         /\ UNCHANGED << slotOwner, node >>
    /\ UNCHANGED << path, pc, scan, devNum, helper, proc, ctxDone, polls, ret,
                    cancelAt >>
    /\ UNCHANGED notMgrVars

\* the privileged "rfcomm release <DevicePath>"; its outcome is ignored
CloseRelease(t) ==
    /\ cl[t].stage = "locked"
    /\ LET c == cl[t].conn
           s == devNum[c]
       IN  IF s # NoSlot /\ CheckPrivilegeHelper \in {"pkexec", "sudo"}
              THEN \E ok \in BOOLEAN :
                      /\ relIssued' = [relIssued EXCEPT ![c] = relIssued[c] + 1]
                      /\ cl' = [cl EXCEPT ![t].stage = "released", ![t].relOk = ok]
                      /\ IF ok /\ slotOwner[s] # "free"
                            THEN /\ slotOwner' = [slotOwner EXCEPT ![s] = "free"]
                                 /\ node' = node \ {s}
                            ELSE UNCHANGED << slotOwner, node >>
              ELSE /\ cl' = [cl EXCEPT ![t].stage = "released"]
                   /\ UNCHANGED << relIssued, slotOwner, node >>
    /\ UNCHANGED << path, pc, scan, devNum, helper, proc, ctxDone, polls, ret, mu, cancelAt >>
    /\ UNCHANGED notMgrVars

\* CloseKill returning without the deferred c.mu.Unlock()
CloseKillKeepsLock(t) ==
    /\ cl[t].stage = "released"
    /\ LET c == cl[t].conn
       IN  /\ IF Alive(proc[c])
                 THEN /\ proc' = [proc EXCEPT ![c] = "killed"]
                      /\ slotOwner' = DropBinding(c)
                      /\ node' = NodesAfterDrop(c)
                 ELSE UNCHANGED << proc, slotOwner, node >>
           /\ cl' = [cl EXCEPT ![t].stage = "returned", ![t].err = ErrNil,
                               ![t].killed = Alive(proc[c])]
    /\ UNCHANGED << path, pc, scan, devNum, helper, ctxDone, polls, ret,
                    relIssued, mu, cancelAt >>
    /\ UNCHANGED notMgrVars

\* c.cmd.Process.Kill(); c.cmd.Wait(); unlock; return nil
CloseKill(t) ==
    /\ cl[t].stage = "released"
    /\ LET c == cl[t].conn
       IN  /\ IF Alive(proc[c])
                 THEN /\ proc' = [proc EXCEPT ![c] = "killed"]
                      /\ slotOwner' = DropBinding(c)
                      /\ node' = NodesAfterDrop(c)
                 ELSE UNCHANGED << proc, slotOwner, node >>
           /\ mu' = [mu EXCEPT ![c] = 0]
           /\ cl' = [cl EXCEPT ![t].stage = "returned", ![t].err = ErrNil,
                               ![t].killed = Alive(proc[c])]
    /\ UNCHANGED << path, pc, scan, devNum, helper, ctxDone, polls, ret, relIssued, cancelAt >>
    /\ UNCHANGED notMgrVars

(***************************************************************************)
(* The bind subprocess and the kernel                                      *)
(***************************************************************************)
\* "rfcomm connect" reaches the peer: the slot is bound and its node appears
ProcBind(c) ==
    /\ proc[c] = "running"
    /\ slotOwner[devNum[c]] = "free"
    /\ proc' = [proc EXCEPT ![c] = "connected"]
    /\ slotOwner' = [slotOwner EXCEPT ![devNum[c]] = Owner(c)]
    /\ node' = node \cup {devNum[c]}
    /\ UNCHANGED << path, pc, scan, devNum, helper, ctxDone, polls, ret,
                    relIssued, mu, cl, cancelAt >>
    /\ UNCHANGED notMgrVars

\* the subprocess ends by itself: authorisation refused, peer unreachable,
\* slot busy, link lost
ProcExit(c) ==
    /\ Alive(proc[c])
    /\ proc' = [proc EXCEPT ![c] = "exited"]
    /\ slotOwner' = DropBinding(c)
    /\ node' = NodesAfterDrop(c)
    /\ UNCHANGED << path, pc, scan, devNum, helper, ctxDone, polls, ret,
                    relIssued, mu, cl, cancelAt >>
    /\ UNCHANGED notMgrVars

\* exec.CommandContext: once the context is done the process is killed
CtxKill(c) ==
    /\ ctxDone[c]
    /\ Alive(proc[c])
    /\ proc' = [proc EXCEPT ![c] = "killed"]
    /\ slotOwner' = DropBinding(c)
    /\ node' = NodesAfterDrop(c)
    /\ UNCHANGED << path, pc, scan, devNum, helper, ctxDone, polls, ret,
                    relIssued, mu, cl, cancelAt >>
    /\ UNCHANGED notMgrVars

(***************************************************************************)
(* Specification of the connection manager                                 *)
(***************************************************************************)
\* the steps of the calls in CS, of every Close call and of the environment
MgrNext(CS) ==
    \/ \E c \in CS : EstBegin(c)
    \/ \E c \in CS : FindAvailableRFCOMMDevice(c)
    \/ \E c \in CS : EstHelper(c)
    \/ \E c \in CS : EstStart(c)
    \/ \E c \in CS : EstPollTop(c)
    \/ \E c \in CS : EstPollStat(c)
    \/ \E c \in CS : EstReady(c)
    \/ \E c \in CS : EstTimeout(c)
    \/ \E t \in Closers, c \in CS : CloseCall(t, c)
    \/ \E t \in Threads : CloseLock(t)
    \/ \E t \in Threads : CloseRelease(t)
    \/ \E t \in Threads : CloseKill(t)
    \/ \E c \in CS : ProcBind(c)
    \/ \E c \in CS : ProcExit(c)
    \/ \E c \in CS : CtxKill(c)

\* concurrent callers; Close is called on returned connections only
Next == MgrNext(Calls)

Spec == Init /\ [][Next]_vars

\* one call, with Close also called while the call is still in its poll loop
\* (cancellation requested before Ready)
InflightCalls == {1}

NextInflight ==
    \/ MgrNext(InflightCalls)
    \/ \E t \in Closers, c \in InflightCalls : CloseCallInflight(t, c)

SpecInflight == Init /\ [][NextInflight]_vars

(***************************************************************************)
(* The output of the bind subprocess and the two scanner goroutines        *)
(***************************************************************************)
\* lines "rfcomm connect" writes
BindLines == { "Connected /dev/rfcomm%d to %s on channel %d",
               "Can't connect RFCOMM socket: Host is down" }

\* the lines of a call's subprocess, both streams
BindWritten(c) == Len(out[c]["stdout"]) + Len(out[c]["stderr"])

\* the subprocess writes one line to one of its streams
ProcWrite(c) ==
    /\ Alive(proc[c])
    /\ BindWritten(c) < MaxBindLines
    /\ \E f \in Streams, line \in BindLines :
          out' = [out EXCEPT ![c][f] = Append(out[c][f], line)]
    /\ UNCHANGED << status, scanned >>
    /\ UNCHANGED << mgrVars, appVars, cliVars, labVars, txtVars, disVars, prnVars >>

\* scanner.Scan() returns the next line of a stream; statusCallback(scanner.Text())
ScanForward(c) ==
    /\ \E f \in Streams :
          /\ scanned[c][f] < Len(out[c][f])
          /\ StatusCallback(c, out[c][f][scanned[c][f] + 1])
          /\ scanned' = [scanned EXCEPT ![c][f] = scanned[c][f] + 1]
    /\ out' = out
    /\ UNCHANGED << mgrVars, appVars, cliVars, labVars, txtVars, disVars, prnVars >>

\* one call with its subprocess writing and its scanners forwarding
NextStatus ==
    \/ NextInflight
    \/ \E c \in InflightCalls : ProcWrite(c)
    \/ \E c \in InflightCalls : ScanForward(c)

SpecStatus == Init /\ [][NextStatus]_vars


(***************************************************************************)
(* The application: connecting and disconnecting                           *)
(***************************************************************************)
\* the serial ports the user can pick in portSelect; the first is the node
\* EstablishRFCOMM binds
Ports == {"/dev/rfcomm0", "/dev/ttyUSB0"}
BoundDevicePath == "/dev/rfcomm0"

OpenSessions == {i \in 1 .. Len(sess) : sess[i].open}
OpenConns == {i \in 1 .. Len(conns) : ~conns[i].closed}

\* serial.Open takes the port exclusively: it fails on a port a session holds
PortFree(port) == \A i \in OpenSessions : sess[i].port # port

\* Printer.Close on session i (0: no session)
PrinterClose(ss, i) == IF i = 0 THEN ss ELSE [ss EXCEPT ![i].open = FALSE]

\* RFCOMMConnection.Close on connection i (0: no connection)
ConnClose(cs, i) == IF i = 0 THEN cs ELSE [cs EXCEPT ![i].closed = TRUE]

\* the goroutines waiting in EstablishRFCOMM
Establishing == Cardinality({g \in 1 .. MaxGo : gor[g].pc = "establish"})

\* a print goroutine has dereferenced a nil a.printer: the process is gone
Crashed == \E p \in 1 .. MaxPrints : prt[p].pc = "panic"

\* disconnect(): close and forget the session and the connection
disconnect ==
    /\ sess' = PrinterClose(sess, printer)
    /\ printer' = 0
    /\ conns' = ConnClose(conns, rfcommConn)
    /\ rfcommConn' = 0
    /\ printBtn' = FALSE
    /\ UNCHANGED << connectBtn, sourceImg, gor >>

\* the "Connect" button: disconnect when a session is stored, else check the
\* device, rfcomm and the helper, disable the button and start the goroutine
connectBluetooth ==
    /\ ~Crashed
    /\ connectBtn
    /\ IF printer # 0
          THEN disconnect
          ELSE \E device \in BOOLEAN :
                  IF device /\ CheckRFCOMMInstalled = ErrNil /\ CheckPrivilegeHelper # ""
                     THEN \E g \in 1 .. MaxGo :
                             /\ gor[g].pc = "none"
                             /\ Len(conns) + Establishing < MaxConns
                             /\ gor' = [gor EXCEPT ![g].pc = "establish"]
                             /\ connectBtn' = FALSE
                             /\ UNCHANGED << printer, rfcommConn, sess, conns,
                                             printBtn, sourceImg >>
                     ELSE UNCHANGED appVars
    /\ UNCHANGED notAppVars

\* the goroutine: EstablishRFCOMM returns; a.rfcommConn = conn
GoEstablish(g) ==
    /\ ~Crashed
    /\ gor[g].pc = "establish"
    /\ \E ok \in BOOLEAN :
          IF ok
             THEN /\ conns' = Append(conns, [dev |-> BoundDevicePath, closed |-> FALSE])
                  /\ rfcommConn' = Len(conns) + 1
                  /\ gor' = [gor EXCEPT ![g].pc = "connect", ![g].conn = Len(conns) + 1]
                  /\ UNCHANGED connectBtn
             ELSE /\ connectBtn' = TRUE
                  /\ gor' = [gor EXCEPT ![g].pc = "none"]
                  /\ UNCHANGED << conns, rfcommConn >>
    /\ UNCHANGED << printer, sess, printBtn, sourceImg >>
    /\ UNCHANGED notAppVars

\* the goroutine: printer.Connect(conn.DevicePath); a.printer = p, or
\* conn.Close() and a.rfcommConn = nil when the port does not open
GoConnect(g) ==
    /\ ~Crashed
    /\ gor[g].pc = "connect"
    /\ \E ok \in BOOLEAN :
          IF ok /\ PortFree(conns[gor[g].conn].dev) /\ Len(sess) < MaxSessions
             THEN /\ sess' = Append(sess, [port |-> conns[gor[g].conn].dev, open |-> TRUE])
                  /\ printer' = Len(sess) + 1
                  /\ connectBtn' = TRUE
                  /\ gor' = [gor EXCEPT ![g].pc = "battery", ![g].sess = Len(sess) + 1]
                  /\ UNCHANGED << conns, rfcommConn >>
             ELSE /\ conns' = ConnClose(conns, gor[g].conn)
                  /\ rfcommConn' = 0
                  /\ connectBtn' = TRUE
                  /\ gor' = [gor EXCEPT ![g] = [pc |-> "none", conn |-> 0, sess |-> 0]]
                  /\ UNCHANGED << sess, printer >>
    /\ UNCHANGED << printBtn, sourceImg >>
    /\ UNCHANGED notAppVars

\* the goroutine: p.GetBattery() has returned; enable printBtn when an image
\* is loaded
GoBattery(g) ==
    /\ ~Crashed
    /\ gor[g].pc = "battery"
    /\ printBtn' = (printBtn \/ sourceImg)
    /\ gor' = [gor EXCEPT ![g] = [pc |-> "none", conn |-> 0, sess |-> 0]]
    /\ UNCHANGED << printer, rfcommConn, sess, conns, connectBtn, sourceImg >>
    /\ UNCHANGED notAppVars

\* the "Connect Port" button: disconnect when a session is stored, else open
\* the selected port, store the session and query the battery
connectManualPort ==
    /\ ~Crashed
    /\ IF printer # 0
          THEN disconnect
          ELSE \E port \in Ports \cup {""}, ok \in BOOLEAN :
                  IF port # "" /\ ok /\ PortFree(port) /\ Len(sess) < MaxSessions
                     THEN /\ sess' = Append(sess, [port |-> port, open |-> TRUE])
                          /\ printer' = Len(sess) + 1
                          /\ printBtn' = (printBtn \/ sourceImg)
                          /\ UNCHANGED << rfcommConn, conns, connectBtn, sourceImg, gor >>
                     ELSE UNCHANGED appVars
    /\ UNCHANGED notAppVars

\* an image is decoded and stored (loadImage, updateTextPreview)
loadImage ==
    /\ ~Crashed
    /\ sourceImg' = TRUE
    /\ printBtn' = (printBtn \/ printer # 0)
    /\ UNCHANGED << printer, rfcommConn, sess, conns, connectBtn, gor >>
    /\ UNCHANGED notAppVars

\* a text edit: the text is rendered (nothing happens when it is empty or
\* does not render), stored as the source image and previewed; printBtn is
\* enabled when a session is stored
updateTextPreview ==
    /\ ~Crashed
    /\ \E rendered \in BOOLEAN :
          IF rendered
             THEN /\ sourceImg' = TRUE
                  /\ printBtn' = (printBtn \/ printer # 0)
             ELSE UNCHANGED << sourceImg, printBtn >>
    /\ UNCHANGED << printer, rfcommConn, sess, conns, connectBtn, gor >>
    /\ UNCHANGED notAppVars

\* the "Print" button, clickable while enabled: without a session or an
\* image a dialog is shown; else the job is built, the button disabled and
\* the print goroutine started
print ==
    /\ ~Crashed
    /\ printBtn
    /\ IF printer = 0 \/ ~sourceImg
          THEN UNCHANGED << appVars, prt >>
          ELSE /\ \E p \in 1 .. MaxPrints :
                     /\ prt[p].pc = "none"
                     /\ prt' = [prt EXCEPT ![p] = [pc |-> "pending", sess |-> 0]]
               /\ printBtn' = FALSE
               /\ UNCHANGED << printer, rfcommConn, sess, conns, connectBtn,
                               sourceImg, gor >>
    /\ UNCHANGED notAppPrintVars

\* the print goroutine evaluates a.printer and calls Print on it: a nil
\* pointer dereference when no session is stored any more
GoPrint(p) ==
    /\ ~Crashed
    /\ prt[p].pc = "pending"
    /\ prt' = [prt EXCEPT ![p] = IF printer = 0
                                    THEN [pc |-> "panic", sess |-> 0]
                                    ELSE [pc |-> "printing", sess |-> printer]]
    /\ UNCHANGED appVars
    /\ UNCHANGED notAppPrintVars

\* the print goroutine: Print has returned; the status is shown and printBtn
\* enabled
GoPrinted(p) ==
    /\ ~Crashed
    /\ prt[p].pc = "printing"
    /\ prt' = [prt EXCEPT ![p] = [pc |-> "none", sess |-> 0]]
    /\ printBtn' = TRUE
    /\ UNCHANGED << printer, rfcommConn, sess, conns, connectBtn, sourceImg, gor >>
    /\ UNCHANGED notAppPrintVars

AppNext ==
    \/ connectBluetooth
    \/ connectManualPort
    \/ loadImage
    \/ updateTextPreview
    \/ print
    \/ \E p \in 1 .. MaxPrints : GoPrint(p)
    \/ \E p \in 1 .. MaxPrints : GoPrinted(p)
    \/ \E g \in 1 .. MaxGo : GoEstablish(g)
    \/ \E g \in 1 .. MaxGo : GoConnect(g)
    \/ \E g \in 1 .. MaxGo : GoBattery(g)

\* the application on a host where rfcomm and a helper are installed
AppEnvInit ==
    /\ MgrInit
    /\ path \in { {"rfcomm", "pkexec", "sudo"}, {"rfcomm", "sudo"}, {"rfcomm"} }
    /\ slotOwner = [s \in Slots |-> "free"]

InitApp ==
    AppEnvInit /\ AppInit /\ CliIdle /\ LabIdle /\ TxtIdle /\ DisIdle
    /\ StaIdle /\ PrnIdle

SpecApp == InitApp /\ [][AppNext]_vars

(***************************************************************************)
(* The printer client                                                      *)
(***************************************************************************)
CR == 13
LF == 10
CRLF == << CR, LF >>

\* "BATTERY?", "CONFIG?" and the "BATTERY" that opens a battery response
CmdBattery == << 66, 65, 84, 84, 69, 82, 89, 63 >>
CmdConfig == << 67, 79, 78, 70, 73, 71, 63 >>
BatteryPrefix == << 66, 65, 84, 84, 69, 82, 89 >>

ErrfWrite == "errorf: write failed: %w"
ErrInvalidBattery == "errors.New: invalid battery response"
ErrRead == "read error"

\* unicode.IsSpace on the bytes below 128
IsSpace(b) == b \in {9, 10, 11, 12, 13, 32}

RECURSIVE TrimLeft(_)
TrimLeft(str) ==
    IF str = << >> \/ ~IsSpace(Head(str)) THEN str ELSE TrimLeft(Tail(str))

RECURSIVE TrimRight(_)
TrimRight(str) ==
    IF str = << >> \/ ~IsSpace(str[Len(str)]) THEN str
    ELSE TrimRight(SubSeq(str, 1, Len(str) - 1))

\* strings.TrimSpace
TrimSpace(str) == TrimRight(TrimLeft(str))

\* the index of the first b in str, 0 when there is none
IndexByte(str, b) ==
    IF \E i \in 1 .. Len(str) : str[i] = b
       THEN CHOOSE i \in 1 .. Len(str) :
               str[i] = b /\ \A j \in 1 .. (i - 1) : str[j] # b
       ELSE 0

\* bufio.Reader.ReadString(delim) on the bytes that arrive before the read
\* gives up: the line up to and including delim, or what arrived and an error
ReadString(stream, delim) ==
    LET k == IndexByte(stream, delim)
    IN  IF k = 0
           THEN [line |-> stream, err |-> ErrRead]
           ELSE [line |-> SubSeq(stream, 1, k), err |-> ErrNil]

\* port.Write succeeds only on an open handle
WriteOk(ok) == ok /\ p_port = "open"

\* sendCommand with a read error passed on to the caller
sendCommandReadErr(cmd, ok, stream) ==
    IF p_port = "nil"
       THEN [resp |-> << >>, err |-> ErrNotConnected, writes |-> << >>, used |-> 0,
             calls |-> << >>]
       ELSE IF ~WriteOk(ok)
               THEN [resp |-> << >>, err |-> ErrfWrite, writes |-> << >>, used |-> 0,
                     calls |-> << [data |-> cmd \o CRLF, ok |-> FALSE] >>]
               ELSE LET r == ReadString(stream, LF)
                    IN  [resp |-> IF r.err # ErrNil THEN << >> ELSE TrimSpace(r.line),
                         err |-> r.err,
                         writes |-> << cmd \o CRLF >>,
                         used |-> Len(r.line),
                         calls |-> << [data |-> cmd \o CRLF, ok |-> TRUE] >>]

\* Printer.sendCommand(cmd): what it returns, its Write calls (calls) and
\* those that succeeded (writes), and the bytes of the stream it reads at least
sendCommand(cmd, ok, stream) ==
    IF p_port = "nil"
       THEN [resp |-> << >>, err |-> ErrNotConnected, writes |-> << >>, used |-> 0,
             calls |-> << >>]
       ELSE IF ~WriteOk(ok)
               THEN [resp |-> << >>, err |-> ErrfWrite, writes |-> << >>, used |-> 0,
                     calls |-> << [data |-> cmd \o CRLF, ok |-> FALSE] >>]
               ELSE LET r == ReadString(stream, LF)
                    IN  [resp |-> IF r.err # ErrNil THEN << >> ELSE TrimSpace(r.line),
                         err |-> ErrNil,
                         writes |-> << cmd \o CRLF >>,
                         used |-> Len(r.line),
                         calls |-> << [data |-> cmd \o CRLF, ok |-> TRUE] >>]

\* GetBattery reporting 0 for a response too short to hold the percentage
GetBatterySilentZero(ok, stream) ==
    LET r == sendCommand(CmdBattery, ok, stream)
    IN  IF r.err # ErrNil
           THEN [val |-> 0, err |-> r.err, sc |-> r]
           ELSE IF Len(r.resp) > 7
                   THEN [val |-> r.resp[8], err |-> ErrNil, sc |-> r]
                   ELSE [val |-> 0, err |-> ErrNil, sc |-> r]

\* Printer.GetBattery: the byte at index 7 of the response
GetBattery(ok, stream) ==
    LET r == sendCommand(CmdBattery, ok, stream)
    IN  IF r.err # ErrNil
           THEN [val |-> 0, err |-> r.err, sc |-> r]
           ELSE IF Len(r.resp) > 7
                   THEN [val |-> r.resp[8], err |-> ErrNil, sc |-> r]
                   ELSE [val |-> 0, err |-> ErrInvalidBattery, sc |-> r]

\* Printer.GetConfig
GetConfig(ok, stream) ==
    LET r == sendCommand(CmdConfig, ok, stream)
    IN  [val |-> 0, err |-> r.err, sc |-> r]

\* "\x1b!o"
EscCancelPause == << 27, 33, 111 >>

ErrfPrint == "errorf: print failed: %w"
ErrPortWrite == "port write error"

\* Printer.CancelPause: one Write of the escape sequence, its error returned
CancelPause(ok) ==
    [err |-> IF WriteOk(ok) THEN ErrNil ELSE ErrPortWrite,
     calls |-> << [data |-> EscCancelPause, ok |-> WriteOk(ok)] >>]

\* Print failing when the pause-cancel write failed
PrintChecksPause(data, okPause, okJob) ==
    IF p_port = "nil"
       THEN [err |-> ErrNotConnected, calls |-> << >>]
       ELSE LET cp == CancelPause(okPause)
            IN  IF cp.err # ErrNil
                   THEN [err |-> ErrfPrint, calls |-> cp.calls]
                   ELSE [err |-> IF WriteOk(okJob) THEN ErrNil ELSE ErrfPrint,
                         calls |-> cp.calls \o << [data |-> data, ok |-> WriteOk(okJob)] >>]

\* Printer.Print(data): CancelPause with its result dropped, the sleep, then
\* one Write of data
PrinterPrint(data, okPause, okJob) ==
    IF p_port = "nil"
       THEN [err |-> ErrNotConnected, calls |-> << >>]
       ELSE LET cp == CancelPause(okPause)
            IN  [err |-> IF WriteOk(okJob) THEN ErrNil ELSE ErrfPrint,
                 calls |-> cp.calls \o << [data |-> data, ok |-> WriteOk(okJob)] >>]

\* the data of the Write calls that succeeded, in order
Written(calls) ==
    LET done == SelectSeq(calls, LAMBDA c : c.ok)
    IN  [i \in 1 .. Len(done) |-> done[i].data]

\* the state after a query: the Write calls reach the wire; the reader,
\* thrown away with the call, has taken the line and any bytes it read ahead
AfterQuery(op, cmd, ok, r) ==
    /\ wire' = wire \o r.sc.writes
    /\ \E n \in r.sc.used .. Len(rx) : rx' = SubSeq(rx, n + 1, Len(rx))
    /\ last' = [op |-> op, cmd |-> cmd, port |-> p_port, writeOk |-> WriteOk(ok),
                rxBefore |-> rx, resp |-> r.sc.resp, scErr |-> r.sc.err,
                val |-> r.val, err |-> r.err, calls |-> r.sc.calls]
    /\ UNCHANGED p_port

CallGetBattery ==
    /\ Len(wire) < MaxWrites
    /\ \E ok \in BOOLEAN : AfterQuery("GetBattery", CmdBattery, ok, GetBattery(ok, rx))
    /\ UNCHANGED notCliVars

CallGetConfig ==
    /\ Len(wire) < MaxWrites
    /\ \E ok \in BOOLEAN : AfterQuery("GetConfig", CmdConfig, ok, GetConfig(ok, rx))
    /\ UNCHANGED notCliVars

\* the print jobs handed to Print: none, "PRINT 1\r\n"
JobChoices ==
    { << >>, << 80, 82, 73, 78, 84, 32, 49, 13, 10 >> }

CallPrint ==
    /\ Len(wire) < MaxWrites
    /\ \E data \in JobChoices, okPause \in BOOLEAN, okJob \in BOOLEAN :
          LET r == PrinterPrint(data, okPause, okJob)
          IN  /\ wire' = wire \o Written(r.calls)
              /\ last' = [op |-> "Print", cmd |-> data, port |-> p_port,
                          writeOk |-> WriteOk(okJob), rxBefore |-> rx, resp |-> << >>,
                          scErr |-> ErrNil, val |-> 0, err |-> r.err, calls |-> r.calls]
    /\ UNCHANGED << p_port, rx >>
    /\ UNCHANGED notCliVars

\* Printer.Close: the handle is closed, p.port stays set
CallClose ==
    /\ p_port = "open"
    /\ p_port' = "closed"
    /\ UNCHANGED << wire, rx, last >>
    /\ UNCHANGED notCliVars

\* the bytes a response is built from: LF, space, 'd' (CR comes with CRLF)
RespBytes == {10, 32, 100}

RECURSIVE SeqsUpTo(_, _)
SeqsUpTo(S, n) ==
    IF n = 0 THEN { << >> }
    ELSE LET shorter == SeqsUpTo(S, n - 1)
         IN  shorter \cup { Append(q, b) : q \in shorter, b \in S }

\* what the printer sends: a prefix of "BATTERY", up to MaxExtra further
\* bytes, and no terminator, LF or CRLF
Responses ==
    { SubSeq(BatteryPrefix, 1, k) \o extra \o term :
        k \in 0 .. Len(BatteryPrefix),
        extra \in SeqsUpTo(RespBytes, MaxExtra),
        term \in { << >>, << LF >>, CRLF } }

CliInit ==
    /\ p_port \in {"nil", "open"}
    /\ wire = << >>
    /\ rx \in Responses
    /\ last = NoCall

\* the manager and the application at rest
MgrIdle ==
    /\ MgrInit
    /\ path = {"rfcomm", "pkexec", "sudo"}
    /\ slotOwner = [s \in Slots |-> "free"]

InitClient ==
    MgrIdle /\ AppInit /\ CliInit /\ LabIdle /\ TxtIdle /\ DisIdle
    /\ StaIdle /\ PrnIdle

NextClient ==
    \/ CallGetBattery
    \/ CallGetConfig
    \/ CallPrint
    \/ CallClose

SpecClient == InitClient /\ [][NextClient]_vars

(***************************************************************************)
(* The label pipeline: tspl (print job) and imaging (bitmap)               *)
(***************************************************************************)
\* LabelSize; Width and Height are in tenths of a millimetre
Label12x40 == [Name |-> "12x40mm", Width |-> 120, Height |-> 400, PixelW |-> 96, PixelH |-> 284]
Label14x40 == [Name |-> "14x40mm", Width |-> 140, Height |-> 400, PixelW |-> 96, PixelH |-> 284]
Label14x50 == [Name |-> "14x50mm", Width |-> 140, Height |-> 500, PixelW |-> 96, PixelH |-> 355]
Label14x75 == [Name |-> "14x75mm", Width |-> 140, Height |-> 750, PixelW |-> 96, PixelH |-> 532]
Label15x30 == [Name |-> "15x30mm", Width |-> 150, Height |-> 300, PixelW |-> 96, PixelH |-> 213]

AllSizes == << Label12x40, Label14x40, Label14x50, Label14x75, Label15x30 >>

RECURSIVE FormatNat(_)
FormatNat(n) ==
    IF n < 10 THEN << 48 + n >>
    ELSE FormatNat(n \div 10) \o << 48 + (n % 10) >>

\* fmt "%d"
FormatInt(n) == IF n < 0 THEN << 45 >> \o FormatNat(0 - n) ELSE FormatNat(n)

\* fmt "%.1f" of t tenths, t >= 0
FormatFloat1(t) == FormatNat(t \div 10) \o << 46, 48 + (t % 10) >>

\* Command.Size: "SIZE %.1f mm,%.1f mm\r\n"
Size(buf, width, height) ==
    buf \o << 83, 73, 90, 69, 32 >> \o FormatFloat1(width) \o << 32, 109, 109, 44 >> \o FormatFloat1(height)
        \o << 32, 109, 109 >> \o CRLF

\* Command.Gap: "GAP %.1f mm,%.1f mm\r\n"
Gap(buf, gap, offset) ==
    buf \o << 71, 65, 80, 32 >> \o FormatFloat1(gap) \o << 32, 109, 109, 44 >> \o FormatFloat1(offset)
        \o << 32, 109, 109 >> \o CRLF

\* Command.Direction: "DIRECTION %d,%d\r\n"
Direction(buf, dir, mirror) ==
    buf \o << 68, 73, 82, 69, 67, 84, 73, 79, 78, 32 >> \o FormatInt(dir) \o << 44 >> \o FormatInt(mirror) \o CRLF

\* Density without the clamp
DensityUnclamped(buf, level) ==
    buf \o << 68, 69, 78, 83, 73, 84, 89, 32 >> \o FormatInt(level) \o CRLF

\* Command.Density: the level clamped to 0..15, "DENSITY %d\r\n"
Density(buf, level) ==
    LET level1 == IF level < 0 THEN 0 ELSE level
        level2 == IF level1 > 15 THEN 15 ELSE level1
    IN  buf \o << 68, 69, 78, 83, 73, 84, 89, 32 >> \o FormatInt(level2) \o CRLF

\* Command.CLS: "CLS\r\n"
CLS(buf) == buf \o << 67, 76, 83 >> \o CRLF

\* Command.Bitmap: "BITMAP %d,%d,%d,%d,1," then the data, then "\r\n"
Bitmap(buf, x, y, widthBytes, height, data) ==
    buf \o << 66, 73, 84, 77, 65, 80, 32 >> \o FormatInt(x) \o << 44 >> \o FormatInt(y) \o << 44 >>
        \o FormatInt(widthBytes) \o << 44 >> \o FormatInt(height) \o << 44, 49, 44 >>
        \o data \o CRLF

\* Command.Print: "PRINT %d\r\n"
CommandPrint(buf, copies) == buf \o << 80, 82, 73, 78, 84, 32 >> \o FormatInt(copies) \o CRLF

\* BuildPrintJob with CLS after the bitmap
BuildPrintJobClsLate(size, density, bitmap, copies) ==
    CommandPrint(
      CLS(
        Bitmap(
          Density(
            Direction(
              Gap(
                Size(<< >>, size.Width, size.Height),
                50, 0),
              0, 0),
            density),
          0, 0, size.PixelW \div 8, size.PixelH, bitmap)),
      copies)

\* BuildPrintJob: Size, Gap(5.0, 0), Direction(0, 0), Density, CLS, Bitmap,
\* Print chained on one buffer
BuildPrintJob(size, density, bitmap, copies) ==
    CommandPrint(
      Bitmap(
        CLS(
          Density(
            Direction(
              Gap(
                Size(<< >>, size.Width, size.Height),
                50, 0),
              0, 0),
            density)),
        0, 0, size.PixelW \div 8, size.PixelH, bitmap),
      copies)


\* a source image is [w, h, px]: px the pixels row by row, each an opaque
\* 8-bit << r, g, b >>
PixelAt(img, x, y) == img.px[y * img.w + x + 1]

\* rgbToGray: c.RGBA() gives 16-bit channels (v * 257);
\* uint8((0.299 r + 0.587 g + 0.114 b) / 256)
rgbToGray(c) ==
    ((299 * c[1] + 587 * c[2] + 114 * c[3]) * 257) \div (1000 * 256)

\* resizeToFit, the scale as the fraction num/den: maxW/srcW, or maxH/srcH
\* when that is smaller
ScaleOf(img, maxW, maxH) ==
    IF maxH * img.w < maxW * img.h
       THEN [num |-> maxH, den |-> img.h]
       ELSE [num |-> maxW, den |-> img.w]

\* int(float64(src) * scale): the product of an exact integer value can
\* round to just below it in float64, and then truncates to one less (loss)
ScaledLen(src, scale, loss) ==
    LET exact == (src * scale.num) \div scale.den
    IN  IF loss /\ (src * scale.num) % scale.den = 0 /\ exact > 0
           THEN exact - 1
           ELSE exact

\* resizeToFit: the bounds of the scaled image
ResizedBounds(img, maxW, maxH, lossW, lossH) ==
    LET scale == ScaleOf(img, maxW, maxH)
    IN  [Dx |-> ScaledLen(img.w, scale, lossW),
         Dy |-> ScaledLen(img.h, scale, lossH)]

\* resizeToFit: nearest neighbour, srcX = int(float64(x) / scale) capped at
\* srcW - 1 (the quotient taken exactly)
SrcCoord(v, scale, srcLen) ==
    LET q == (v * scale.den) \div scale.num
    IN  IF q >= srcLen THEN srcLen - 1 ELSE q

ResizedAt(img, scale, x, y) ==
    PixelAt(img, SrcCoord(x, scale, img.w), SrcCoord(y, scale, img.h))

\* ToMonochrome, one pixel with the out-of-bounds pixels taken as dark
MonoBitDarkOutside(img, scale, b, threshold, invert, x, y) ==
    LET gray == IF x < b.Dx /\ y < b.Dy
                   THEN rgbToGray(ResizedAt(img, scale, x, y))
                   ELSE 0
        bit == IF gray < threshold THEN 1 ELSE 0
    IN  IF invert THEN 1 - bit ELSE bit

\* ToMonochrome, one pixel with invert applied only inside the image
MonoBitInvertInside(img, scale, b, threshold, invert, x, y) ==
    IF x < b.Dx /\ y < b.Dy
       THEN LET gray == rgbToGray(ResizedAt(img, scale, x, y))
                bit == IF gray < threshold THEN 1 ELSE 0
            IN  IF invert THEN 1 - bit ELSE bit
       ELSE 0

\* ToMonochrome, the body of the loop: the bit of pixel (x, y) of the
\* resized image with bounds b
MonoBit(img, scale, b, threshold, invert, x, y) ==
    LET gray == IF x < b.Dx /\ y < b.Dy
                   THEN rgbToGray(ResizedAt(img, scale, x, y))
                   ELSE 255
        bit == IF gray < threshold THEN 1 ELSE 0
    IN  IF invert THEN 1 - bit ELSE bit

\* the byte the loop leaves at byteIdx: data[byteIdx] |= bit << (7 - x % 8)
\* for the eight x with x / 8 = byteIdx % widthBytes
MonoByte(img, scale, b, widthBytes, threshold, invert, byteIdx) ==
    LET y == byteIdx \div widthBytes
        x0 == 8 * (byteIdx % widthBytes)
        bitAt(k) == MonoBit(img, scale, b, threshold, invert, x0 + k, y)
    IN  bitAt(0) * 128 + bitAt(1) * 64 + bitAt(2) * 32 + bitAt(3) * 16
          + bitAt(4) * 8 + bitAt(5) * 4 + bitAt(6) * 2 + bitAt(7)

\* ToMonochrome with the buffer sized by the pixel count
ToMonochromeWidePixels(img, width, height, threshold, invert, lossW, lossH) ==
    LET scale == ScaleOf(img, width, height)
        b == ResizedBounds(img, width, height, lossW, lossH)
    IN  [i \in 1 .. (width * height) |->
            IF i <= (width \div 8) * height
               THEN MonoByte(img, scale, b, width \div 8, threshold, invert, i - 1)
               ELSE 0]

\* ToMonochrome: resizeToFit, then widthBytes * height bytes filled by the
\* loop; data[i] of the code is at i + 1
ToMonochrome(img, width, height, threshold, invert, lossW, lossH) ==
    LET scale == ScaleOf(img, width, height)
        b == ResizedBounds(img, width, height, lossW, lossH)
    IN  [i \in 1 .. ((width \div 8) * height) |->
            MonoByte(img, scale, b, width \div 8, threshold, invert, i - 1)]

\* PreviewMonochrome with the bits of a byte read LSB first
PreviewMonochromeLsb(data, width, height) ==
    [y \in 0 .. (height - 1) |->
        [x \in 0 .. (width - 1) |->
            LET byteIdx == y * (width \div 8) + x \div 8
                bitIdx == x % 8
                bit == (data[byteIdx + 1] \div (2 ^ bitIdx)) % 2
            IN  IF bit = 1 THEN 0 ELSE 255]]

\* PreviewMonochrome: the gray image, 0 (black) where the bit is 1
PreviewMonochrome(data, width, height) ==
    [y \in 0 .. (height - 1) |->
        [x \in 0 .. (width - 1) |->
            LET byteIdx == y * (width \div 8) + x \div 8
                bitIdx == 7 - (x % 8)
                bit == (data[byteIdx + 1] \div (2 ^ bitIdx)) % 2
            IN  IF bit = 1 THEN 0 ELSE 255]]


\* the application's steps on one image and label size, once each: the
\* bitmap (updatePreview, print), then its preview or the print job
Rasterize(threshold, invert) ==
    /\ rin.set
    /\ rout.op = "none"
    /\ rout' = [op |-> "ToMonochrome", threshold |-> threshold, invert |-> invert,
                data |-> ToMonochrome(rin.img, rin.size.PixelW, rin.size.PixelH,
                                      threshold, invert, rin.lossW, rin.lossH),
                grid |-> << >>]
    /\ UNCHANGED << rin, job >>
    /\ UNCHANGED notLabVars

Preview ==
    /\ rout.op = "ToMonochrome"
    /\ ~job.built
    /\ rout' = [rout EXCEPT !.op = "PreviewMonochrome",
                            !.grid = PreviewMonochrome(rout.data, rin.size.PixelW,
                                                       rin.size.PixelH)]
    /\ UNCHANGED << rin, job >>
    /\ UNCHANGED notLabVars

Build(density, copies) ==
    /\ rout.op = "ToMonochrome"
    /\ ~job.built
    /\ job' = [built |-> TRUE, density |-> density, copies |-> copies,
               bytes |-> BuildPrintJob(rin.size, density, rout.data, copies)]
    /\ UNCHANGED << rin, rout >>
    /\ UNCHANGED notLabVars

\* opaque colours: white, black, red (gray 76)
Palette == { << 255, 255, 255 >>, << 0, 0, 0 >>, << 255, 0, 0 >> }

\* the images of w x h pixels over the palette
ImagesOf(w, h) == { [w |-> w, h |-> h, px |-> px] : px \in [1 .. (w * h) -> Palette] }

WhiteImage == [w |-> 1, h |-> 1, px |-> << << 255, 255, 255 >> >>]

\* label sizes of 8 x 2 and 16 x 2 pixels, to rasterize every small image
Small8x2 == [Name |-> "8x2", Width |-> 10, Height |-> 5, PixelW |-> 8, PixelH |-> 2]
Small16x2 == [Name |-> "16x2", Width |-> 20, Height |-> 5, PixelW |-> 16, PixelH |-> 2]

Thresholds == {0, 77, 128, 255}
DensityLevels == (0 - MaxOver) .. (15 + MaxOver)
CopyChoices == {1, 3, 12}

LabInit ==
    /\ rin \in { [set |-> TRUE, img |-> img, size |-> size, lossW |-> lw, lossH |-> lh] :
                   img \in ImagesOf(1, 1) \cup ImagesOf(2, 1) \cup ImagesOf(1, 2),
                   size \in {Small8x2, Small16x2},
                   lw \in BOOLEAN, lh \in BOOLEAN }
    /\ rout = NoRaster
    /\ job = NoJob

InitLabel ==
    MgrIdle /\ AppInit /\ CliIdle /\ LabInit /\ TxtIdle /\ DisIdle
    /\ StaIdle /\ PrnIdle

NextLabel ==
    \/ \E threshold \in Thresholds, invert \in BOOLEAN : Rasterize(threshold, invert)
    \/ Preview
    \/ \E density \in DensityLevels, copies \in CopyChoices : Build(density, copies)

SpecLabel == InitLabel /\ [][NextLabel]_vars

\* the registry's label sizes, with a white image and a black-and-red one
RegInit ==
    /\ rin \in { [set |-> TRUE, img |-> img, size |-> AllSizes[i], lossW |-> l, lossH |-> l] :
                   img \in {WhiteImage, [w |-> 2, h |-> 1, px |-> << << 0, 0, 0 >>, << 255, 0, 0 >> >>]},
                   i \in 1 .. Len(AllSizes),
                   l \in BOOLEAN }
    /\ rout = NoRaster
    /\ job = NoJob

InitRegistry ==
    MgrIdle /\ AppInit /\ CliIdle /\ RegInit /\ TxtIdle /\ DisIdle
    /\ StaIdle /\ PrnIdle

NextRegistry ==
    \/ \E threshold \in {0, 128, 255}, invert \in BOOLEAN : Rasterize(threshold, invert)
    \/ \E copies \in {1, 3} : Build(8, copies)

SpecRegistry == InitRegistry /\ [][NextRegistry]_vars


(***************************************************************************)
(* Claims about the printer client                                         *)
(***************************************************************************)
\* the first line of a stream without its terminator (LF, or CR LF); the
\* whole stream when no LF arrives
Payload(stream) ==
    LET k == IndexByte(stream, LF)
    IN  IF k = 0 THEN stream
        ELSE IF k > 1 /\ stream[k - 1] = CR THEN SubSeq(stream, 1, k - 2)
        ELSE SubSeq(stream, 1, k - 1)

HasLine(stream) == \E i \in 1 .. Len(stream) : stream[i] = LF

\* str is line with whitespace, and nothing else, cut from both ends
IsTrimOf(str, line) ==
    /\ (str # << >> => ~IsSpace(str[1]) /\ ~IsSpace(str[Len(str)]))
    /\ \E i \in 1 .. (Len(line) + 1) :
          /\ i + Len(str) - 1 <= Len(line)
          /\ str = SubSeq(line, i, i + Len(str) - 1)
          /\ \A j \in 1 .. Len(line) :
                (j < i \/ j >= i + Len(str)) => IsSpace(line[j])

\* C9: a query on a Printer with a port writes the command followed by CR LF
\* in one Write and returns the first LF-terminated line (trimmed); when no
\* line arrives before the read gives up it returns "" and no error; a
\* failed Write is returned as an error.
C9_Query ==
    (last.op \in {"GetBattery", "GetConfig"} /\ last.port # "nil") =>
        /\ ~last.writeOk => (last.scErr # ErrNil /\ last.resp = << >>)
        /\ last.writeOk =>
              /\ wire # << >>
              /\ wire[Len(wire)] = last.cmd \o << 13, 10 >>
              /\ last.scErr = ErrNil
              /\ ~HasLine(last.rxBefore) => last.resp = << >>
              /\ HasLine(last.rxBefore) =>
                    \E k \in 1 .. Len(last.rxBefore) :
                        /\ last.rxBefore[k] = 10
                        /\ \A j \in 1 .. (k - 1) : last.rxBefore[j] # 10
                        /\ IsTrimOf(last.resp, SubSeq(last.rxBefore, 1, k))
                        /\ Len(rx) <= Len(last.rxBefore) - k

\* C9 witness: the command was written, bytes arrived but no LF before the
\* read gave up, and the query returned "" without an error.
C9_Witness ==
    /\ last.op = "GetConfig"
    /\ last.writeOk
    /\ last.rxBefore # << >>
    /\ ~HasLine(last.rxBefore)
    /\ last.resp = << >>
    /\ last.scErr = ErrNil

\* C10: GetBattery on a response line shorter than 8 characters (the empty
\* response of a read that gave up included) returns an error, never a
\* percentage.
C10_ShortBattery ==
    (last.op = "GetBattery" /\ (~HasLine(last.rxBefore) \/ Len(Payload(last.rxBefore)) < 8)) =>
        /\ last.err # ErrNil
        /\ last.val = 0

\* C10 witness: the 7-character line "BATTERY" arrived and GetBattery
\* reported an invalid response.
C10_Witness ==
    /\ last.op = "GetBattery"
    /\ last.writeOk
    /\ HasLine(last.rxBefore)
    /\ Payload(last.rxBefore) = BatteryPrefix
    /\ last.err = ErrInvalidBattery

C12_Print ==
    (last.op = "Print" /\ last.port # "nil") =>
        /\ Len(last.calls) = 2
        /\ last.calls[1].data = << 27, 33, 111 >>
        /\ last.calls[2].data = last.cmd
        /\ (last.err = ErrNil) <=> last.calls[2].ok
        /\ last.calls[2].ok =>
              (wire # << >> /\ wire[Len(wire)] = last.cmd)

\* C12 witness: the pause-cancel write failed, the job write succeeded and
\* Print returned nil.
C12_Witness ==
    /\ last.op = "Print"
    /\ Len(last.calls) = 2
    /\ ~last.calls[1].ok
    /\ last.calls[2].ok
    /\ last.cmd # << >>
    /\ last.err = ErrNil

\* C13: Print and the queries on a Printer with no open handle (never
\* opened, or closed) return ErrNotConnected and write nothing.
C13_NotConnected ==
    (last.op \in {"Print", "GetBattery", "GetConfig"} /\ last.port # "open") =>
        /\ last.err = ErrNotConnected
        /\ \A i \in 1 .. Len(last.calls) : ~last.calls[i].ok

(***************************************************************************)
(* Claims about the label pipeline                                         *)
(***************************************************************************)
\* the decimal digits of n, 0 <= n < 10000, without leading zeros
Decimal(n) ==
    LET th == << 48 + (n \div 1000) >>
        hu == << 48 + ((n \div 100) % 10) >>
        te == << 48 + ((n \div 10) % 10) >>
        un == << 48 + (n % 10) >>
    IN  IF n >= 1000 THEN th \o hu \o te \o un
        ELSE IF n >= 100 THEN hu \o te \o un
        ELSE IF n >= 10 THEN te \o un
        ELSE un

\* kw is in b at position p
KwAt(b, p, kw) ==
    /\ p >= 1
    /\ p + Len(kw) - 1 <= Len(b)
    /\ SubSeq(b, p, p + Len(kw) - 1) = kw

\* the position of the k-th byte c at or after p, within 100 bytes; 0 if none
NthFrom(b, p, c, k) ==
    LET win == p .. (IF Len(b) < p + 100 THEN Len(b) ELSE p + 100)
        hits == { i \in win : b[i] = c /\ Cardinality({ j \in p .. i : b[j] = c }) = k }
    IN  IF hits = {} THEN 0 ELSE CHOOSE i \in hits : TRUE

\* the start of line n of a job (n <= 7), the BITMAP line being header,
\* payload of len bytes and CR LF; 0 if the job has no such line
LineStart(b, n, len) ==
    IF n = 1 THEN 1
    ELSE IF n <= 6
            THEN LET lf == NthFrom(b, 1, 10, n - 1)
                 IN  IF lf = 0 THEN 0 ELSE lf + 1
    ELSE LET lf5 == NthFrom(b, 1, 10, 5)
             c5 == IF lf5 = 0 THEN 0 ELSE NthFrom(b, lf5 + 1, 44, 5)
         IN  IF c5 = 0 THEN 0 ELSE c5 + len + 3

JobKeywords ==
    << << 83, 73, 90, 69, 32 >>, << 71, 65, 80, 32 >>, << 68, 73, 82, 69, 67, 84, 73, 79, 78, 32 >>, << 68, 69, 78, 83, 73, 84, 89, 32 >>, << 67, 76, 83 >> \o << 13, 10 >>,
       << 66, 73, 84, 77, 65, 80, 32 >>, << 80, 82, 73, 78, 84, 32 >> >>

\* C14: a built job consists of the seven lines SIZE, GAP, DIRECTION,
\* DENSITY, CLS, BITMAP, PRINT in this order, each ended by CR LF (the BITMAP
\* line after its payload); it begins with "SIZE" and ends with the line
\* "PRINT <copies>" CR LF.
C14_JobLayout ==
    job.built =>
        LET b == job.bytes
            len == Len(rout.data)
            start(n) == LineStart(b, n, len)
            last7 == << 80, 82, 73, 78, 84, 32 >> \o Decimal(job.copies) \o << 13, 10 >>
        IN  /\ \A n \in 1 .. 7 : KwAt(b, start(n), JobKeywords[n])
            /\ \A n \in 2 .. 7 : KwAt(b, start(n) - 2, << 13, 10 >>)
            /\ SubSeq(b, start(7) - 2 - len, start(7) - 3) = rout.data
            /\ KwAt(b, start(7), last7)
            /\ start(7) + Len(last7) - 1 = Len(b)

\* C14 witness: a job for 3 copies was built from a bitmap with dark pixels.
C14_Witness ==
    /\ job.built
    /\ job.copies = 3
    /\ \E i \in 1 .. Len(rout.data) : rout.data[i] # 0
    /\ KwAt(job.bytes, Len(job.bytes) - 8, << 80, 82, 73, 78, 84, 32, 51 >>)

\* C15: the DENSITY line of a built job carries the level clamped into
\* 0..15: 0 for a level below 0, 15 for a level above 15, the level itself
\* otherwise.
C15_DensityClamp ==
    job.built =>
        LET clamped == IF job.density < 0 THEN 0
                       ELSE IF job.density > 15 THEN 15
                       ELSE job.density
        IN  KwAt(job.bytes, LineStart(job.bytes, 4, Len(rout.data)),
                 << 68, 69, 78, 83, 73, 84, 89, 32 >> \o Decimal(clamped) \o << 13, 10 >>)

\* C15 witness: a job was built with a level below 0, or above 15.
C15_Witness ==
    /\ job.built
    /\ job.density \in {0 - 1, 17}

\* C16: at every label size of the registry the bitmap has (PixelW / 8) *
\* PixelH bytes, and the BITMAP line of the job is the header with
\* width_bytes = PixelW / 8 and height = PixelH, then exactly that many
\* payload bytes, then CR LF.
C16_BitmapLength ==
    /\ rout.op = "ToMonochrome" =>
          Len(rout.data) = (rin.size.PixelW \div 8) * rin.size.PixelH
    /\ job.built =>
          LET b == job.bytes
              wb == rin.size.PixelW \div 8
              h == rin.size.PixelH
              header == << 66, 73, 84, 77, 65, 80, 32, 48, 44, 48, 44 >> \o Decimal(wb) \o << 44 >> \o Decimal(h) \o << 44, 49, 44 >>
              p == LineStart(b, 6, wb * h)
              q == p + Len(header) + wb * h
          IN  /\ KwAt(b, p, header)
              /\ KwAt(b, q, << 13, 10 >> \o << 80, 82, 73, 78, 84, 32 >>)
              /\ SubSeq(b, p + Len(header), q - 1) = rout.data

\* C16 witness: a job was built for the 14x75mm label from its bitmap of
\* 12 * 532 bytes.
C16_Witness ==
    /\ job.built
    /\ rin.size = Label14x75
    /\ Len(rout.data) = 6384

\* bit 7 - (x mod 8) of byte y * widthBytes + x / 8
BitOf(data, widthBytes, x, y) ==
    (data[y * widthBytes + (x \div 8) + 1] \div (2 ^ (7 - (x % 8)))) % 2

AllWhite(img) == \A i \in 1 .. Len(img.px) : img.px[i] = << 255, 255, 255 >>

\* the bounds of the scaled image inside the label
Footprint == ResizedBounds(rin.img, rin.size.PixelW, rin.size.PixelH, rin.lossW, rin.lossH)

\* C17: with invert = false an all-white image gives a bitmap of zero bytes
\* at every threshold (3408 of them for 14x40mm at threshold 128), and every
\* pixel outside the scaled image's footprint has bit 0.
C17_WhiteIsZero ==
    (rout.op = "ToMonochrome" /\ ~rout.invert) =>
        /\ AllWhite(rin.img) => \A i \in 1 .. Len(rout.data) : rout.data[i] = 0
        /\ (AllWhite(rin.img) /\ rin.size = Label14x40 /\ rout.threshold = 128) =>
              Len(rout.data) = 3408
        /\ \A y \in 0 .. (rin.size.PixelH - 1) :
              \A x \in 0 .. (rin.size.PixelW - 1) :
                 (x >= Footprint.Dx \/ y >= Footprint.Dy) =>
                     BitOf(rout.data, rin.size.PixelW \div 8, x, y) = 0

\* C17 witness: the white image rasterized for 14x40mm at threshold 128
\* without invert; its footprint leaves part of the label uncovered.
C17_Witness ==
    /\ rout.op = "ToMonochrome"
    /\ ~rout.invert
    /\ rout.threshold = 128
    /\ rin.img = WhiteImage
    /\ rin.size = Label14x40
    /\ Footprint.Dy < rin.size.PixelH
    /\ Len(rout.data) = 3408

\* C18: the bitmap with invert = true is the bitwise complement of the
\* bitmap with invert = false for the same image, size and threshold, at
\* every bit.
C18_InvertComplement ==
    rout.op = "ToMonochrome" =>
        LET other == ToMonochrome(rin.img, rin.size.PixelW, rin.size.PixelH,
                                  rout.threshold, ~rout.invert, rin.lossW, rin.lossH)
        IN  /\ Len(other) = Len(rout.data)
            /\ \A i \in 1 .. Len(rout.data) : rout.data[i] + other[i] = 255

\* C18 witness: an inverted bitmap of an image with a dark pixel whose
\* footprint does not fill the label.
C18_Witness ==
    /\ rout.op = "ToMonochrome"
    /\ rout.invert
    /\ rout.threshold = 128
    /\ \E i \in 1 .. Len(rin.img.px) : rin.img.px[i] = << 0, 0, 0 >>
    /\ Footprint.Dx < rin.size.PixelW

\* C19: the preview of a bitmap is black at (x, y) exactly where the pixel
\* packed there was dark and white elsewhere, and pixel (x, y) is bit
\* 7 - (x mod 8) of byte y * width_bytes + x / 8.
C19_PackUnpack ==
    rout.op = "PreviewMonochrome" =>
        LET scale == ScaleOf(rin.img, rin.size.PixelW, rin.size.PixelH)
        IN  \A y \in 0 .. (rin.size.PixelH - 1) :
               \A x \in 0 .. (rin.size.PixelW - 1) :
                  LET dark == MonoBit(rin.img, scale, Footprint, rout.threshold,
                                      rout.invert, x, y) = 1
                  IN  /\ rout.grid[y][x] = (IF dark THEN 0 ELSE 255)
                      /\ BitOf(rout.data, rin.size.PixelW \div 8, x, y) = (IF dark THEN 1 ELSE 0)

\* C19 witness: a preview whose first byte mixes dark and light pixels
\* unevenly (its bit pattern is not a palindrome).
C19_Witness ==
    /\ rout.op = "PreviewMonochrome"
    /\ \E x \in 0 .. 7 : rout.grid[0][x] # rout.grid[0][7 - x]


(***************************************************************************)
(* Text wrapping (imaging)                                                 *)
(***************************************************************************)
\* the characters of a text, as code points: '\n', ' ', 'W', 'i' and the
\* combining acute accent
Newline == 10
Chars == {10, 32, 87, 105, 769}

\* face.GlyphAdvance(r) in 26.6 fixed point (1/64 pixel): 3 px for ' ',
\* 9.375 px for 'W', 2.5 px for 'i'; no glyph (ok = false) for the others
GlyphAdvance(r) ==
    CASE r = 32 -> [adv |-> 192, ok |-> TRUE]
      [] r = 87 -> [adv |-> 600, ok |-> TRUE]
      [] r = 105 -> [adv |-> 160, ok |-> TRUE]
      [] OTHER -> [adv |-> 0, ok |-> FALSE]

RECURSIVE SumAdvance(_)
SumAdvance(str) ==
    IF str = << >> THEN 0
    ELSE (IF GlyphAdvance(Head(str)).ok THEN GlyphAdvance(Head(str)).adv ELSE 0)
           + SumAdvance(Tail(str))

\* measureString: the advances summed, then fixed.Int26_6.Ceil
measureString(str) == (SumAdvance(str) + 63) \div 64

\* wrapText breaking once the current line is already too wide
RECURSIVE wrapTextLateLoop(_, _, _, _)
wrapTextLateLoop(text, maxWidth, lines, currentLine) ==
    IF text = << >>
       THEN IF currentLine # << >> THEN Append(lines, currentLine) ELSE lines
       ELSE LET char == Head(text)
                testLine == Append(currentLine, char)
            IN  IF char = Newline
                   THEN wrapTextLateLoop(Tail(text), maxWidth, Append(lines, currentLine), << >>)
                   ELSE IF measureString(currentLine) > maxWidth /\ currentLine # << >>
                           THEN wrapTextLateLoop(Tail(text), maxWidth,
                                                 Append(lines, currentLine), << char >>)
                           ELSE wrapTextLateLoop(Tail(text), maxWidth, lines, testLine)

wrapTextLate(text, maxWidth) == wrapTextLateLoop(text, maxWidth, << >>, << >>)

\* wrapText, the loop over the characters left, with lines and currentLine
RECURSIVE wrapTextLoop(_, _, _, _)
wrapTextLoop(text, maxWidth, lines, currentLine) ==
    IF text = << >>
       THEN IF currentLine # << >> THEN Append(lines, currentLine) ELSE lines
       ELSE LET char == Head(text)
                testLine == Append(currentLine, char)
            IN  IF char = Newline
                   THEN wrapTextLoop(Tail(text), maxWidth, Append(lines, currentLine), << >>)
                   ELSE IF measureString(testLine) > maxWidth /\ currentLine # << >>
                           THEN wrapTextLoop(Tail(text), maxWidth,
                                             Append(lines, currentLine), << char >>)
                           ELSE wrapTextLoop(Tail(text), maxWidth, lines, testLine)

\* wrapText(text, face, maxWidth)
wrapText(text, maxWidth) == wrapTextLoop(text, maxWidth, << >>, << >>)

\* strings.Split(text, sep) for a one-character sep: the pieces between the
\* separators, one more than there are separators
RECURSIVE SplitLoop(_, _, _, _)
SplitLoop(text, sep, piece, pieces) ==
    IF text = << >> THEN Append(pieces, piece)
    ELSE IF Head(text) = sep
            THEN SplitLoop(Tail(text), sep, << >>, Append(pieces, piece))
            ELSE SplitLoop(Tail(text), sep, Append(piece, Head(text)), pieces)

Split(text, sep) == SplitLoop(text, sep, << >>, << >>)

\* strings.Fields: the maximal runs of non-space characters
RECURSIVE FieldsLoop(_, _, _)
FieldsLoop(str, word, words) ==
    LET closed == IF word # << >> THEN Append(words, word) ELSE words
    IN  IF str = << >> THEN closed
        ELSE IF IsSpace(Head(str))
                THEN FieldsLoop(Tail(str), << >>, closed)
                ELSE FieldsLoop(Tail(str), Append(word, Head(str)), words)

Fields(str) == FieldsLoop(str, << >>, << >>)

\* breakLongWord, the loop over the characters left: the lines appended to
\* and the part returned
RECURSIVE breakLongWordLoop(_, _, _, _)
breakLongWordLoop(word, maxWidth, lines, currentPart) ==
    IF word = << >> THEN [lines |-> lines, currentPart |-> currentPart]
    ELSE LET testPart == Append(currentPart, Head(word))
         IN  IF measureString(testPart) > maxWidth /\ currentPart # << >>
                THEN breakLongWordLoop(Tail(word), maxWidth,
                                       Append(lines, currentPart), << Head(word) >>)
                ELSE breakLongWordLoop(Tail(word), maxWidth, lines, testPart)

\* breakLongWord(word, face, maxWidth, &lines)
breakLongWord(word, maxWidth, lines) == breakLongWordLoop(word, maxWidth, lines, << >>)

\* wrapTextWordOnly, the loop over words[i..] of a paragraph
RECURSIVE wordsLoop(_, _, _, _, _)
wordsLoop(words, i, maxWidth, lines, currentLine) ==
    IF i > Len(words) THEN [lines |-> lines, currentLine |-> currentLine]
    ELSE LET word == words[i]
             testLine == currentLine \o << 32 >> \o word
         IN  IF measureString(testLine) > maxWidth
                THEN IF measureString(word) > maxWidth
                        THEN LET r == breakLongWord(word, maxWidth, Append(lines, currentLine))
                             IN  wordsLoop(words, i + 1, maxWidth, r.lines, r.currentPart)
                        ELSE wordsLoop(words, i + 1, maxWidth, Append(lines, currentLine), word)
                ELSE wordsLoop(words, i + 1, maxWidth, lines, testLine)

\* wrapTextWordOnly, the loop over the paragraphs
RECURSIVE paragraphsLoop(_, _, _)
paragraphsLoop(paragraphs, maxWidth, lines) ==
    IF paragraphs = << >> THEN lines
    ELSE LET words == Fields(Head(paragraphs))
         IN  IF Len(words) = 0
                THEN paragraphsLoop(Tail(paragraphs), maxWidth, Append(lines, << >>))
                ELSE LET r == wordsLoop(words, 2, maxWidth, lines, words[1])
                     IN  paragraphsLoop(Tail(paragraphs), maxWidth,
                                        IF r.currentLine # << >>
                                           THEN Append(r.lines, r.currentLine)
                                           ELSE r.lines)

\* wrapTextWordOnly with the newlines taken as spaces
wrapTextWordOnlyJoined(text, maxWidth) ==
    paragraphsLoop(<< text >>, maxWidth, << >>)

\* wrapTextWordOnly(text, face, maxWidth)
wrapTextWordOnly(text, maxWidth) ==
    paragraphsLoop(Split(text, Newline), maxWidth, << >>)

\* the widths of the canvas the text is rendered on (a label's pixel width
\* or height, never below 10): the limits are 0, 6, 8 and 14 pixels
CanvasWidths == {10, 16, 18, 24}

\* the text entry: one more character typed
TypeChar(c) ==
    /\ Len(tin.text) < MaxText
    /\ tin' = [tin EXCEPT !.text = Append(tin.text, c)]
    /\ tout' = NoWrap
    /\ UNCHANGED notTxtVars

\* RenderTextWithOptions without WordBreakOnly: wrapText at renderW - 10
WrapAnywhere ==
    /\ tout.op = "none"
    /\ tout' = [op |-> "wrapText", lines |-> wrapText(tin.text, tin.width - 10)]
    /\ UNCHANGED tin
    /\ UNCHANGED notTxtVars

\* RenderTextWithOptions with WordBreakOnly: wrapTextWordOnly at renderW - 10
WrapWordOnly ==
    /\ tout.op = "none"
    /\ tout' = [op |-> "wrapTextWordOnly",
                lines |-> wrapTextWordOnly(tin.text, tin.width - 10)]
    /\ UNCHANGED tin
    /\ UNCHANGED notTxtVars

TxtInit ==
    /\ tin \in { [text |-> << >>, width |-> w] : w \in CanvasWidths }
    /\ tout = NoWrap

InitText ==
    MgrIdle /\ AppInit /\ CliIdle /\ LabIdle /\ TxtInit /\ DisIdle
    /\ StaIdle /\ PrnIdle

NextText ==
    \/ \E c \in Chars : TypeChar(c)
    \/ WrapAnywhere
    \/ WrapWordOnly

SpecText == InitText /\ [][NextText]_vars

(***************************************************************************)
(* Claims about text wrapping                                              *)
(***************************************************************************)
RECURSIVE Flatten(_)
Flatten(lines) ==
    IF lines = << >> THEN << >> ELSE Head(lines) \o Flatten(Tail(lines))

\* C20: every line wrapText gives measures at most canvas width - 10, unless
\* it is a single character that alone measures more; and the lines
\* concatenated are the text without its newlines.
C20_WrapAnywhere ==
    tout.op = "wrapText" =>
        /\ \A i \in 1 .. Len(tout.lines) :
              \/ measureString(tout.lines[i]) <= tin.width - 10
              \/ Len(tout.lines[i]) = 1
        /\ Flatten(tout.lines) = SelectSeq(tin.text, LAMBDA c : c # 10)

\* C20 witness: a wrap that gave a single character wider than the limit on
\* a line of its own and another line of several characters.
C20_Witness ==
    /\ tout.op = "wrapText"
    /\ \E i \in 1 .. Len(tout.lines) :
          Len(tout.lines[i]) = 1 /\ measureString(tout.lines[i]) > tin.width - 10
    /\ \E i \in 1 .. Len(tout.lines) : Len(tout.lines[i]) >= 2

\* C21: no line wrapTextWordOnly gives measures more than the limit unless
\* it is a single character: a word wider than the limit is split, wherever
\* it stands in its paragraph.
C21_WordOnlyNoOverflow ==
    tout.op = "wrapTextWordOnly" =>
        \A i \in 1 .. Len(tout.lines) :
            \/ measureString(tout.lines[i]) <= tin.width - 10
            \/ Len(tout.lines[i]) = 1

\* the characters of str a wrap keeps: all but newlines when breaking
\* anywhere, the non-space ones when breaking at words
Kept(str, op) ==
    IF op = "wrapText" THEN SelectSeq(str, LAMBDA c : c # 10)
    ELSE SelectSeq(str, LAMBDA c : c \notin {9, 10, 11, 12, 13, 32})

\* the kept characters on the first i lines
KeptUpTo(lines, i, op) == Len(Kept(Flatten(SubSeq(lines, 1, i)), op))

\* the line the k-th kept character is on
LineOf(lines, k, op) ==
    CHOOSE i \in 1 .. Len(lines) :
        KeptUpTo(lines, i - 1, op) < k /\ k <= KeptUpTo(lines, i, op)

\* C22: under both wrap policies the lines hold the kept characters of the
\* text in order, and the characters just before and just after a newline
\* of the text are never on the same line.
C22_NewlineBreaks ==
    tout.op \in {"wrapText", "wrapTextWordOnly"} =>
        /\ Kept(Flatten(tout.lines), tout.op) = Kept(tin.text, tout.op)
        /\ \A p \in 1 .. Len(tin.text) :
              LET a == Len(Kept(SubSeq(tin.text, 1, p - 1), tout.op))
              IN  (tin.text[p] = 10 /\ a >= 1 /\ a < Len(Kept(tin.text, tout.op))) =>
                      LineOf(tout.lines, a, tout.op) # LineOf(tout.lines, a + 1, tout.op)

\* C22 witness: a word wrap of two words separated by a newline that would
\* fit on one line if the newline were a space.
C22_Witness ==
    /\ tout.op = "wrapTextWordOnly"
    /\ Len(tout.lines) = 2
    /\ \E p \in 2 .. (Len(tin.text) - 1) :
          /\ tin.text[p] = 10
          /\ tin.text[p - 1] \in {87, 105}
          /\ tin.text[p + 1] \in {87, 105}
          /\ measureString([tin.text EXCEPT ![p] = 32]) <= tin.width - 10

\* str is words separated by single spaces (or is empty)
SingleSpaced(str) ==
    /\ str # << >> => (str[1] # 32 /\ str[Len(str)] # 32)
    /\ \A i \in 1 .. (Len(str) - 1) : ~(str[i] = 32 /\ str[i + 1] = 32)

\* text has a word, its newline-delimited lines are single-spaced and each
\* fits within the limit
NeedsNoWrap(text, maxWidth) ==
    /\ \E i \in 1 .. Len(text) : text[i] \notin {10, 32}
    /\ \A i \in 1 .. Len(Split(text, 10)) :
          /\ SingleSpaced(Split(text, 10)[i])
          /\ measureString(Split(text, 10)[i]) <= maxWidth

\* C30: for a text of single-spaced words and newlines none of whose lines
\* needs wrapping, wrapText and wrapTextWordOnly give the same lines, also
\* when the text ends with a newline.
C30_PoliciesAgree ==
    (tout.op \in {"wrapText", "wrapTextWordOnly"} /\ NeedsNoWrap(tin.text, tin.width - 10)) =>
        /\ tout.lines = wrapText(tin.text, tin.width - 10)
        /\ tout.lines = wrapTextWordOnly(tin.text, tin.width - 10)


(***************************************************************************)
(* Discovery of paired devices                                             *)
(***************************************************************************)
ErrfListNotFound == "errorf: failed to list paired devices: %w (exec.ErrNotFound)"
ErrfListExit == "errorf: failed to list paired devices: %w (*exec.ExitError)"

\* a line of the tool's output, trimmed, as its space-separated words
DeviceOf(line) == [MAC |-> line[2], Name |-> SubSeq(line, 3, Len(line))]

\* the loop over the lines: those with the prefix "Device " that split in
\* two parts give a device
RECURSIVE ParseDevices(_)
ParseDevices(lines) ==
    IF lines = << >> THEN << >>
    ELSE LET line == Head(lines)
         IN  IF Len(line) >= 3 /\ line[1] = "Device"
                THEN << DeviceOf(line) >> \o ParseDevices(Tail(lines))
                ELSE ParseDevices(Tail(lines))

\* ListPairedBluetoothDevices (Linux): any error of
\* exec.Command("bluetoothctl", "devices", "Paired").Output() is returned
ListPairedBluetoothDevices(tool) ==
    IF ~tool.installed THEN [devices |-> << >>, err |-> ErrfListNotFound]
    ELSE IF tool.exit # 0 THEN [devices |-> << >>, err |-> ErrfListExit]
    ELSE [devices |-> ParseDevices(tool.out), err |-> ErrNil]

\* ListPairedBluetoothDevices (Windows): the Bluetooth COM ports of the
\* registry, or every serial port when there are none or the registry read
\* failed; never an error
ListPairedBluetoothDevicesWindows(regOk, btPorts, ports) ==
    LET fromReg == IF regOk THEN [i \in 1 .. Len(btPorts) |->
                                     [MAC |-> btPorts[i], Name |-> << "bth", btPorts[i] >>]]
                   ELSE << >>
        fromAll == [i \in 1 .. Len(ports) |-> [MAC |-> ports[i], Name |-> << ports[i] >>]]
    IN  [devices |-> IF Len(fromReg) = 0 THEN fromAll ELSE fromReg, err |-> ErrNil]

\* refreshBluetoothDevices on Linux
ListLinux ==
    /\ listed.called = "none"
    /\ LET r == ListPairedBluetoothDevices(bt)
       IN  listed' = [called |-> "linux", devices |-> r.devices, err |-> r.err,
                      failed |-> IF ~bt.installed THEN "missing"
                                 ELSE IF bt.exit # 0 THEN "call" ELSE "none"]
    /\ UNCHANGED bt
    /\ UNCHANGED notDisVars

\* refreshBluetoothDevices on Windows
ListWindows ==
    /\ listed.called = "none"
    /\ \E regOk \in BOOLEAN, btPorts \in {<< >>, << "COM5" >>},
          ports \in {<< >>, << "COM1" >>, << "COM1", "COM5" >>} :
          LET r == ListPairedBluetoothDevicesWindows(regOk, btPorts, ports)
          IN  listed' = [called |-> "windows", devices |-> r.devices, err |-> r.err,
                         failed |-> IF regOk THEN "none" ELSE "call"]
    /\ UNCHANGED bt
    /\ UNCHANGED notDisVars

\* lines bluetoothctl prints
OutputLines ==
    { << "Device", "AA:BB:CC:DD:EE:FF", "Nelko", "P21" >>,
      << "Device", "11:22:33:44:55:66", "Speaker" >>,
      << "Device", "77:88:99:AA:BB:CC" >>,
      << "No", "default", "controller", "available" >> }

DisInit ==
    /\ bt \in [installed : BOOLEAN, exit : {0, 1}, out : SeqsUpTo(OutputLines, MaxLines)]
    /\ listed = NotListed

InitDiscovery ==
    MgrIdle /\ AppInit /\ CliIdle /\ LabIdle /\ TxtIdle /\ DisInit
    /\ StaIdle /\ PrnIdle

NextDiscovery ==
    \/ ListLinux
    \/ ListWindows

SpecDiscovery == InitDiscovery /\ [][NextDiscovery]_vars

\* C23: when the underlying discovery call fails, ListPairedBluetoothDevices
\* returns an empty list and no error; it returns an error only when the
\* tool itself is missing, and that error is told apart from the others.
C23_DiscoveryFailure ==
    /\ listed.failed = "call" =>
          (listed.err = ErrNil /\ (listed.called = "linux" => listed.devices = << >>))
    /\ listed.err # ErrNil => (listed.failed = "missing" /\ listed.err = ErrfListNotFound)


(***************************************************************************)
(* The application: preview and print of the source image                  *)
(***************************************************************************)
\* updatePreview: the bitmap of the source image under the settings, and the
\* picture of it put on screen
updatePreview ==
    /\ rin.set
    /\ rout.op = "none"
    /\ LET mono == ToMonochrome(rin.img, rin.size.PixelW, rin.size.PixelH,
                                rin.threshold, rin.invert, rin.lossW, rin.lossH)
       IN  rout' = [op |-> "updatePreview", threshold |-> rin.threshold,
                    invert |-> rin.invert, data |-> mono,
                    grid |-> PreviewMonochrome(mono, rin.size.PixelW, rin.size.PixelH)]
    /\ UNCHANGED << rin, job >>
    /\ UNCHANGED notLabVars

\* print, up to the start of its goroutine: the bitmap of the source image
\* with the invert setting negated, and the job built around it
printJob(density, copies) ==
    /\ rin.set
    /\ ~job.built
    /\ LET bitmap == ToMonochrome(rin.img, rin.size.PixelW, rin.size.PixelH,
                                  rin.threshold, ~rin.invert, rin.lossW, rin.lossH)
       IN  job' = [built |-> TRUE, density |-> density, copies |-> copies,
                   bitmap |-> bitmap,
                   bytes |-> BuildPrintJob(rin.size, density, bitmap, copies)]
    /\ UNCHANGED << rin, rout >>
    /\ UNCHANGED notLabVars

\* a source image, a label size and the threshold and invert settings
RenderInit ==
    /\ rin \in { [set |-> TRUE, img |-> img, size |-> size, lossW |-> l, lossH |-> l,
                   threshold |-> threshold, invert |-> invert] :
                   img \in ImagesOf(1, 1) \cup ImagesOf(2, 1),
                   size \in {Small8x2, Small16x2},
                   l \in BOOLEAN,
                   threshold \in {77, 128},
                   invert \in BOOLEAN }
    /\ rout = NoRaster
    /\ job = NoJob

InitRender ==
    MgrIdle /\ AppInit /\ CliIdle /\ RenderInit /\ TxtIdle /\ DisIdle
    /\ StaIdle /\ PrnIdle

NextRender ==
    \/ updatePreview
    \/ \E density \in {8, 15}, copies \in {1} : printJob(density, copies)

SpecRender == InitRender /\ [][NextRender]_vars

(***************************************************************************)
(* Claims about the application                                            *)
(***************************************************************************)
\* the GetBattery queries and the Print calls that have not returned, on
\* session i
QueriesOn(i) == {g \in 1 .. MaxGo : gor[g].pc = "battery" /\ gor[g].sess = i}
PrintsOn(i) == {p \in 1 .. MaxPrints : prt[p].pc = "printing" /\ prt[p].sess = i}

\* C29: the bitmap print has put in the job is equal, byte for byte, to the
\* bitmap updatePreview has made of the same image under the same settings.
C29_PrintIsPreview ==
    (rout.op = "updatePreview" /\ job.built) => job.bitmap = rout.data

\* C25: on every session at most one Print or GetBattery call is in flight.
C25_OneInFlight ==
    \A i \in 1 .. Len(sess) :
        Cardinality(QueriesOn(i)) + Cardinality(PrintsOn(i)) <= 1

\* C28: no print goroutine has called Print on a nil session, and the
\* session of every Print call in flight is open.
C28_PrintOnOpenSession ==
    \A p \in 1 .. MaxPrints :
        /\ prt[p].pc # "panic"
        /\ prt[p].pc = "printing" => sess[prt[p].sess].open

\* C4: at most one printer session is open, and at most one connection is
\* Ready, at any time: a new one is stored only after the previous one was
\* closed.
C4_OneReady ==
    /\ Cardinality(OpenSessions) <= 1
    /\ Cardinality(OpenConns) <= 1


(***************************************************************************)
(* Claims about the connection manager                                     *)
(***************************************************************************)
\* a Connection that was returned and on which no Close has begun
Live(c) == ret[c].conn /\ ~ctxDone[c]

\* the call has returned an error after its bind subprocess was started
FailedAfterStart(c) == pc[c] = "done" /\ ~ret[c].conn /\ proc[c] # "none"

\* what Close leaves behind: context cancelled, a release issued, subprocess gone
CleanedUp(c) == ctxDone[c] /\ relIssued[c] >= 1 /\ ~Alive(proc[c])

\* C1: at most one live Connection holds a given /dev/rfcommN slot: two
\* Connections that are both returned and not closed never have the same
\* DevicePath.
C1_SlotExclusive ==
    \A c1, c2 \in Calls :
        (c1 # c2 /\ Live(c1) /\ Live(c2)) => devNum[c1] # devNum[c2]

C3_CloseIdempotent ==
    /\ \A t \in Threads :
          cl[t].stage = "returned" =>
              /\ cl[t].err = ErrNil
              /\ CleanedUp(cl[t].conn)
    /\ \A c \in Calls :
          mu[c] # 0 =>
              /\ cl[mu[c]].conn = c
              /\ cl[mu[c]].stage \in {"locked", "released"}
              /\ (ENABLED CloseRelease(mu[c])) \/ (ENABLED CloseKill(mu[c]))
    /\ \A t \in Threads :
          cl[t].stage = "wait" =>
              (ENABLED CloseLock(t)) \/ mu[cl[t].conn] \in Threads \ {t}

\* C3 witness: two Close calls on the same connection have returned, the
\* first of them begun while EstablishRFCOMM was still in its poll loop.
C3_Witness ==
    \E t1, t2 \in Closers :
        /\ t1 # t2
        /\ cl[t1].stage = "returned" /\ cl[t2].stage = "returned"
        /\ cl[t1].conn = cl[t2].conn
        /\ cancelAt[cl[t1].conn] \in PollLoop
        /\ relIssued[cl[t1].conn] >= 2

\* C5 as stated: with neither pkexec nor sudo available every finished call
\* has failed with ErrPrivilegeRequired and launched no subprocess.
C5_Original ==
    \A c \in Calls :
        (pc[c] = "done" /\ CheckPrivilegeHelper = "") =>
            /\ ret[c].err = ErrPrivilegeRequired
            /\ proc[c] = "none"

\* C5 amended: with neither pkexec nor sudo available no bind subprocess is
\* ever launched and every finished call has failed; the error is
\* ErrPrivilegeRequired whenever rfcomm is installed and the call found a
\* free slot (otherwise the earlier check's error is returned).
C5_NoHelperNoBind ==
    CheckPrivilegeHelper = "" =>
        \A c \in Calls :
            /\ proc[c] = "none"
            /\ pc[c] \notin {"start", "poll", "stat", "settle", "closing"}
            /\ pc[c] = "done" =>
                  /\ ~ret[c].conn
                  /\ ret[c].err # ErrNil
                  /\ (CheckRFCOMMInstalled = ErrNil /\ devNum[c] # NoSlot)
                        => ret[c].err = ErrPrivilegeRequired

\* C5 witness: a call that reached the helper check without a helper and
\* returned ErrPrivilegeRequired.
C5_Witness ==
    \E c \in Calls :
        /\ pc[c] = "done"
        /\ CheckPrivilegeHelper = ""
        /\ devNum[c] # NoSlot
        /\ ret[c].err = ErrPrivilegeRequired

\* C6: a call that gave up at the bind deadline returns an error the caller
\* can identify as ErrTimeout.
C6_TimeoutTyped ==
    \A c \in Calls :
        (pc[c] = "done" /\ polls[c] >= MaxPolls /\ cl[c].stage = "returned") =>
            ErrorsIs(ret[c].err, ErrTimeout)

C8_CloseReady ==
    \A t \in Closers :
        LET c == cl[t].conn
        IN  /\ cl[t].stage \in {"locked", "released", "returned"} => ctxDone[c]
            /\ cl[t].stage = "released" =>
                  /\ relIssued[c] >= 1
                  /\ ENABLED CloseKill(t)
            /\ cl[t].stage = "returned" =>
                  /\ relIssued[c] >= 1
                  /\ ~Alive(proc[c])
                  /\ cl[t].err = ErrNil

\* C8 witness: a Close of a Ready Connection has returned after its release
\* failed, having killed the still running subprocess.
C8_Witness ==
    \E t \in Closers :
        /\ cl[t].stage = "returned"
        /\ ret[cl[t].conn].conn
        /\ ~cl[t].relOk
        /\ cl[t].killed

\* C24: a call returns a Connection only out of the settle sleep, which it
\* enters only from a poll that found the device path, made before the
\* deadline; a call whose deadline has passed without the path being found
\* never returns a Connection.
C24_ReadyAfterSettle ==
    [][\A c \in Calls :
          /\ (pc'[c] = "settle" /\ pc[c] # "settle") =>
                (pc[c] = "stat" /\ StatOk(devNum[c]) /\ polls[c] < MaxPolls)
          /\ (ret'[c].conn /\ ~ret[c].conn) => pc[c] = "settle"
          /\ (polls[c] >= MaxPolls /\ pc[c] \in {"poll", "closing", "done"}) =>
                ~ret'[c].conn]_vars

\* C24 witness: a call has returned a Connection after a poll that did not
\* find the path and one that did.
C24_Witness ==
    \E c \in Calls : ret[c].conn /\ polls[c] >= 1 /\ polls[c] < MaxPolls

\* C26: every text the status callback of a call was invoked with is a line
\* its bind subprocess wrote to standard output or standard error.
C26_StatusVerbatim ==
    \A c \in Calls :
        \A i \in 1 .. Len(status[c]) :
            \E f \in Streams :
                \E j \in 1 .. Len(out[c][f]) : status[c][i] = out[c][f][j]

\* C27: a call returns a Connection only while the bind subprocess it
\* started is running.
C27_ReadyWhileRunning ==
    [][\A c \in Calls : (ret'[c].conn /\ ~ret[c].conn) => Alive(proc[c])]_vars

=============================================================================
